---------------------------- MODULE Spec2Model ----------------------------
(***************************************************************************)
(* Model of the grade-sheet analysis screen (StudentPerformanceApp) of     *)
(* disejo/tutorvirtual and of its helper components.                       *)
(*                                                                         *)
(* Text is modelled as a sequence of one-character strings, so that        *)
(* trim, toUpperCase and parseFloat are computed character by character.   *)
(* Numbers are exact decimals held as integers in units of 1/Scale.        *)
(* A nullable number is a record [isNum, num]; a nullable object is a      *)
(* sequence of length 0 (null) or 1.                                       *)
(***************************************************************************)
EXTENDS Integers, Sequences, FiniteSets, TLC

VARIABLES
    gradeCell,          \* a raw cell handed to the grade converters
    converted,          \* <<>> or <<results of the four converters on gradeCell>>
    disk,               \* the files the user can pick: file name -> workbook
    xlsxLoaded,         \* useState xlsxLoaded
    scriptPending,      \* the <script> element of the XLSX library is still loading
    readers,            \* FileReaders started and not yet completed
    uploadedWorkbooks,  \* useState uploadedWorkbooks (insertion-ordered object)
    selectedFileName,   \* useState selectedFileName
    selectedSheetName,  \* useState selectedSheetName
    sheetData,          \* useState sheetData
    allDates,           \* useState allDates
    startDate,          \* useState startDate
    endDate,            \* useState endDate
    analysisResults,    \* useState analysisResults: <<>> is null
    error,              \* useState error
    picked,             \* the files the user has already picked in the file input
    llmFeedback,        \* useState llmFeedback: <<>> is undefined, else <<the parts of the text>>
    isGeneratingFeedback,   \* useState isGeneratingFeedback
    showFeedbackModal,  \* useState showFeedbackModal
    feedbackStudentName,    \* useState feedbackStudentName
    requests,           \* the calls of generateFeedback whose fetch has not settled
    postRequest,        \* a request handed to the feedback route, with what its outbound call meets
    postResponse,       \* <<>> or <<the response of the feedback route to postRequest>>
    lastOp              \* the handler that ran last and what the sheet effect did (history)

feedbackVars ==
    <<llmFeedback, isGeneratingFeedback, showFeedbackModal, feedbackStudentName, requests>>

routeVars == <<postRequest, postResponse>>

vars == <<gradeCell, converted, disk, xlsxLoaded, scriptPending, readers,
          uploadedWorkbooks, selectedFileName, selectedSheetName, sheetData,
          allDates, startDate, endDate, analysisResults, error, picked, feedbackVars,
          routeVars, lastOp>>

appVars == <<disk, xlsxLoaded, scriptPending, readers, uploadedWorkbooks,
             selectedFileName, selectedSheetName, sheetData, allDates,
             startDate, endDate, analysisResults, error, picked, feedbackVars,
             routeVars, lastOp>>

-----------------------------------------------------------------------------
(* Bounds of the model *)

\* longest raw cell handed to the converters in SpecNorm
MaxLen == 3
\* most student rows (rows of index >= 2) of a generated grid
MaxStudentRows == 2
\* most date columns (columns of index >= 1) of a generated grid
MaxDateCols == 2

-----------------------------------------------------------------------------
(* Text *)

Digits == <<"0", "1", "2", "3", "4", "5", "6", "7", "8", "9">>

IsDigit(c) == \E i \in 1..10 : Digits[i] = c

DigitVal(c) == (CHOOSE i \in 1..10 : Digits[i] = c) - 1

IsSpace(c) == c = " "

\* a const declaration: Body sees value under the name Body gives it
Bind(value, Body(_)) == Body(value)

\* String.prototype.toUpperCase on one character
UpperChar(c) ==
    CASE c = "l" -> "L"
      [] c = "m" -> "M"
      [] c = "n" -> "N"
      [] c = "x" -> "X"
      [] c = "a" -> "A"
      [] c = "b" -> "B"
      [] c = "c" -> "C"
      [] OTHER -> c

toUpperCase(s) == [i \in 1..Len(s) |-> UpperChar(s[i])]

RECURSIVE TrimStart(_)
TrimStart(s) ==
    IF s # <<>> /\ IsSpace(Head(s)) THEN TrimStart(Tail(s)) ELSE s

RECURSIVE TrimEnd(_)
TrimEnd(s) ==
    IF s # <<>> /\ IsSpace(s[Len(s)]) THEN TrimEnd(SubSeq(s, 1, Len(s) - 1)) ELSE s

\* String.prototype.trim
trim(s) == TrimEnd(TrimStart(s))

-----------------------------------------------------------------------------
(* Numbers *)

\* one unit of a number of the model is 1/Scale
Scale == 10 * 10 * 10 * 10

None == [isNum |-> FALSE, num |-> 0]

Num(v) == [isNum |-> TRUE, num |-> v]

RECURSIVE DigitPrefix(_)
\* the longest prefix of s made of decimal digits
DigitPrefix(s) ==
    IF s # <<>> /\ IsDigit(Head(s)) THEN <<Head(s)>> \o DigitPrefix(Tail(s)) ELSE <<>>

RECURSIVE IntOfDigits(_)
IntOfDigits(ds) ==
    IF ds = <<>> THEN 0
    ELSE 10 * IntOfDigits(SubSeq(ds, 1, Len(ds) - 1)) + DigitVal(ds[Len(ds)])

\* the fraction digits ds read in units of 1/Scale (digits past the fourth dropped)
FracOfDigits(ds) ==
    LET d(i) == IF i <= Len(ds) THEN DigitVal(ds[i]) ELSE 0
    IN  1000 * d(1) + 100 * d(2) + 10 * d(3) + d(4)

\* parseFloat: leading white space, an optional sign, then the longest prefix
\* that is a decimal literal; NaN (None) when there is none
parseFloat(str) ==
    Bind(TrimStart(str), LAMBDA s0 :
    Bind(s0 # <<>> /\ Head(s0) = "-", LAMBDA neg :
    Bind(IF s0 # <<>> /\ Head(s0) \in {"-", "+"} THEN Tail(s0) ELSE s0, LAMBDA s1 :
    Bind(DigitPrefix(s1), LAMBDA ip :
    Bind(SubSeq(s1, Len(ip) + 1, Len(s1)), LAMBDA s2 :
    Bind(IF s2 # <<>> /\ Head(s2) = "." THEN DigitPrefix(Tail(s2)) ELSE <<>>, LAMBDA fp :
    Bind(Scale * IntOfDigits(ip) + FracOfDigits(fp), LAMBDA mag :
        IF ip = <<>> /\ fp = <<>> THEN None
        ELSE Num(IF neg THEN 0 - mag ELSE mag))))))))

-----------------------------------------------------------------------------
(* The grade converters: one copy per component *)

\* numGrade / 100 * 10 and numGrade / 100 * 9, on numbers in units of 1/Scale
Rescale(v, top) == (v * top) \div 100

\* convertGradeToNumeric with the percentage threshold at 100 instead of 10
convertGradeToNumeric_Threshold100(grade) ==
    Bind(toUpperCase(grade), LAMBDA g :
        CASE g = <<"L">> -> Num(9 * Scale)
          [] g = <<"M", "L">> -> Num(6 * Scale)
          [] g = <<"N", "L">> -> Num(3 * Scale)
          [] OTHER ->
                Bind(parseFloat(g), LAMBDA numGrade :
                    IF numGrade.isNum
                    THEN (IF numGrade.num > 100 * Scale
                          THEN Num(Rescale(numGrade.num, 10))
                          ELSE numGrade)
                    ELSE None))

\* convertGradeToNumeric of StudentPerformanceApp
convertGradeToNumeric(grade) ==
    Bind(toUpperCase(grade), LAMBDA g :
        CASE g = <<"L">> -> Num(9 * Scale)
          [] g = <<"M", "L">> -> Num(6 * Scale)
          [] g = <<"N", "L">> -> Num(3 * Scale)
          [] OTHER ->
                Bind(parseFloat(g), LAMBDA numGrade :
                    IF numGrade.isNum
                    THEN (IF numGrade.num > 10 * Scale
                          THEN Num(Rescale(numGrade.num, 10))
                          ELSE numGrade)
                    ELSE None))

\* convertGradeToNumeric of QuantitativeAnalysisSection
convertGradeToNumericQuantitative(grade) ==
    Bind(toUpperCase(grade), LAMBDA g :
        CASE g = <<"L">> -> Num(9 * Scale)
          [] g = <<"M", "L">> -> Num(6 * Scale)
          [] g = <<"N", "L">> -> Num(3 * Scale)
          [] OTHER ->
                Bind(parseFloat(g), LAMBDA numGrade :
                    IF numGrade.isNum
                    THEN (IF numGrade.num > 9 * Scale
                          THEN Num(Rescale(numGrade.num, 9))
                          ELSE numGrade)
                    ELSE None))

\* convertGradeToNumeric of StudentPendingActivities
convertGradeToNumericPending(grade) ==
    Bind(toUpperCase(grade), LAMBDA g :
        CASE g = <<"L">> -> Num(9 * Scale)
          [] g = <<"M", "L">> -> Num(6 * Scale)
          [] g = <<"N", "L">> -> Num(3 * Scale)
          [] OTHER ->
                Bind(parseFloat(g), LAMBDA numGrade :
                    IF numGrade.isNum
                    THEN (IF numGrade.num > 10 * Scale
                          THEN Num(Rescale(numGrade.num, 10))
                          ELSE numGrade)
                    ELSE None))

\* convertGradeToNumeric of StudentProgressChart
convertGradeToNumericProgress(grade) ==
    Bind(toUpperCase(grade), LAMBDA g :
        CASE g = <<"L">> -> Num(9 * Scale)
          [] g = <<"M", "L">> -> Num(6 * Scale)
          [] g = <<"N", "L">> -> Num(3 * Scale)
          [] OTHER ->
                Bind(parseFloat(g), LAMBDA numGrade :
                    IF numGrade.isNum
                    THEN (IF numGrade.num > 10 * Scale
                          THEN Num(Rescale(numGrade.num, 10))
                          ELSE numGrade)
                    ELSE None))

\* isQualitativeGrade of StudentPerformanceApp
isQualitativeGrade(grade) ==
    toUpperCase(grade) \in {<<"L">>, <<"M", "L">>, <<"N", "L">>}

-----------------------------------------------------------------------------
(* JavaScript objects used as maps: a sequence of [key, val] in insertion order *)

ObjHas(obj, k) == \E i \in 1..Len(obj) : obj[i].key = k

ObjGet(obj, k) == obj[CHOOSE i \in 1..Len(obj) : obj[i].key = k].val

\* an assignment that leaves the value of an existing key as it is
ObjPut_KeepFirst(obj, k, v) ==
    IF ObjHas(obj, k) THEN obj ELSE Append(obj, [key |-> k, val |-> v])

\* obj[k] = v: an existing key keeps its place, a new key goes last
ObjPut(obj, k, v) ==
    IF ObjHas(obj, k)
    THEN [i \in 1..Len(obj) |-> IF obj[i].key = k THEN [key |-> k, val |-> v] ELSE obj[i]]
    ELSE Append(obj, [key |-> k, val |-> v])

\* Array.prototype.indexOf, 0-based, -1 when absent
indexOf(seq, x) ==
    IF \E i \in 1..Len(seq) : seq[i] = x
    THEN (CHOOSE i \in 1..Len(seq) : seq[i] = x /\ \A k \in 1..(i - 1) : seq[k] # x) - 1
    ELSE -1

\* the key is an integer index: decimal digits with no leading zero (of at most nine
\* digits, which keeps it below 2^32 - 1)
IsIntegerKey(k) ==
    /\ k # <<>>
    /\ Len(k) <= 9
    /\ \A i \in 1..Len(k) : IsDigit(k[i])
    /\ Len(k) = 1 \/ k[1] # "0"

\* Object.entries: the integer keys in ascending numeric order, then the other keys in
\* insertion order
entries(obj) ==
    Bind(SelectSeq(obj, LAMBDA e : IsIntegerKey(e.key)), LAMBDA ints :
        [i \in 1..Len(ints) |->
            ints[CHOOSE n \in 1..Len(ints) :
                     Cardinality({m \in 1..Len(ints) :
                                     IntOfDigits(ints[m].key) < IntOfDigits(ints[n].key)})
                         = i - 1]]
        \o SelectSeq(obj, LAMBDA e : ~IsIntegerKey(e.key)))

-----------------------------------------------------------------------------
(* Sheet ingestion *)

\* row[j] ? String(row[j]) : '' for a 0-based column j (a missing cell is undefined)
CellAt(row, j) == IF j < Len(row) THEN row[j + 1] ELSE <<>>

\* XLSX.utils.sheet_to_json(workbook.Sheets[sheetName], {header: 1}): the grid of the
\* sheet, and no rows at all for a sheet the workbook does not hold
sheetToJson(workbook, sheetName) ==
    IF sheetName \in DOMAIN workbook.Sheets THEN workbook.Sheets[sheetName] ELSE <<>>

\* headers.slice(1).map(dateStr => String(dateStr || '').trim())
extractDates(headers) == [k \in 1..(Len(headers) - 1) |-> trim(headers[k + 1])]

\* the inner loop of the first pass: some row of index >= 2 holds a valid grade in column j
hasValidGrade(jsonSheet, j) ==
    \E i \in 3..Len(jsonSheet) :
        Bind(trim(CellAt(jsonSheet[i], j)), LAMBDA grade :
            convertGradeToNumeric(grade).isNum \/ isQualitativeGrade(grade))

RECURSIVE validActivityColumnsUpTo(_, _, _)
\* validActivityColumns after the first pass has handled columns 1..j:
\* a later column with the same date label overwrites the flag of an earlier one
validActivityColumnsUpTo(jsonSheet, dates, j) ==
    IF j <= 0 THEN << >>
    ELSE LET before == validActivityColumnsUpTo(jsonSheet, dates, j - 1)
         IN  (dates[j] :> hasValidGrade(jsonSheet, j)) @@ before

\* validActivityColumns as the second pass reads it
validActivityColumns(jsonSheet) ==
    validActivityColumnsUpTo(jsonSheet, extractDates(jsonSheet[1]), Len(jsonSheet[1]) - 1)

RECURSIVE studentGradesUpTo_AllColumns(_, _, _, _, _)
\* studentGradesUpTo without the test of validActivityColumns[date]
studentGradesUpTo_AllColumns(row, topics, dates, valid, j) ==
    IF j <= 0 THEN <<>>
    ELSE ObjPut(studentGradesUpTo_AllColumns(row, topics, dates, valid, j - 1), dates[j],
                [topic |-> trim(CellAt(topics, j)), grade |-> trim(CellAt(row, j))])

RECURSIVE studentGradesUpTo_SkipEmpty(_, _, _, _, _)
\* studentGradesUpTo storing no entry for an empty cell
studentGradesUpTo_SkipEmpty(row, topics, dates, valid, j) ==
    IF j <= 0 THEN <<>>
    ELSE Bind(studentGradesUpTo_SkipEmpty(row, topics, dates, valid, j - 1), LAMBDA before :
         Bind(dates[j], LAMBDA date :
             IF valid[date] /\ trim(CellAt(row, j)) # <<>>
             THEN ObjPut(before, date,
                         [topic |-> trim(CellAt(topics, j)), grade |-> trim(CellAt(row, j))])
             ELSE before))

RECURSIVE studentGradesUpTo(_, _, _, _, _)
\* studentGrades of one row after the second pass has handled columns 1..j
studentGradesUpTo(row, topics, dates, valid, j) ==
    IF j <= 0 THEN <<>>
    ELSE Bind(studentGradesUpTo(row, topics, dates, valid, j - 1), LAMBDA before :
         Bind(dates[j], LAMBDA date :
             IF valid[date]
             THEN ObjPut(before, date,
                         [topic |-> trim(CellAt(topics, j)), grade |-> trim(CellAt(row, j))])
             ELSE before))

RECURSIVE studentRowsFrom_UntrimmedTest(_, _, _, _)
\* studentRowsFrom testing row[0] without trimming it
studentRowsFrom_UntrimmedTest(jsonSheet, dates, valid, i) ==
    IF i > Len(jsonSheet) THEN <<>>
    ELSE Bind(jsonSheet[i], LAMBDA row :
         Bind(studentRowsFrom_UntrimmedTest(jsonSheet, dates, valid, i + 1), LAMBDA rest :
             IF CellAt(row, 0) # <<>>
             THEN <<[studentName |-> trim(CellAt(row, 0)),
                     grades |-> studentGradesUpTo(row, jsonSheet[2], dates, valid,
                                                  Len(jsonSheet[1]) - 1)]>> \o rest
             ELSE rest))

RECURSIVE studentRowsFrom(_, _, _, _)
\* the second pass over the rows i, i+1, ... (1-based i)
studentRowsFrom(jsonSheet, dates, valid, i) ==
    IF i > Len(jsonSheet) THEN <<>>
    ELSE Bind(jsonSheet[i], LAMBDA row :
         Bind(studentRowsFrom(jsonSheet, dates, valid, i + 1), LAMBDA rest :
             IF trim(CellAt(row, 0)) # <<>>
             THEN <<[studentName |-> trim(CellAt(row, 0)),
                     grades |-> studentGradesUpTo(row, jsonSheet[2], dates, valid,
                                                  Len(jsonSheet[1]) - 1)]>> \o rest
             ELSE rest))

\* processXLSXSheetData throwing on fewer than 2 rows instead of 3
processXLSXSheetData_MinTwoRows(workbook, sheetName) ==
    Bind(sheetToJson(workbook, sheetName), LAMBDA jsonSheet :
        IF Len(jsonSheet) < 2
        THEN [threw |-> TRUE, data |-> <<>>, dates |-> <<>>]
        ELSE Bind(extractDates(jsonSheet[1]), LAMBDA dates :
             Bind(validActivityColumns(jsonSheet), LAMBDA valid :
                 [threw |-> FALSE,
                  data |-> studentRowsFrom(jsonSheet, dates, valid, 3),
                  dates |-> dates])))

\* processXLSXSheetData: threw, or the student records and the date axis
processXLSXSheetData(workbook, sheetName) ==
    Bind(sheetToJson(workbook, sheetName), LAMBDA jsonSheet :
        IF Len(jsonSheet) < 3
        THEN [threw |-> TRUE, data |-> <<>>, dates |-> <<>>]
        ELSE Bind(extractDates(jsonSheet[1]), LAMBDA dates :
             Bind(validActivityColumns(jsonSheet), LAMBDA valid :
                 [threw |-> FALSE,
                  data |-> studentRowsFrom(jsonSheet, dates, valid, 3),
                  dates |-> dates])))

-----------------------------------------------------------------------------
(* The analysis *)

\* Number.prototype.toFixed(2) of the quotient n / d of two numbers (d > 0), as the
\* count of hundredths its text shows; a tie is rounded away from zero
toFixed2(n, d) ==
    LET a == IF n < 0 THEN 0 - n ELSE n
        q == (2 * 100 * a + d * Scale) \div (2 * d * Scale)
    IN  IF n < 0 THEN 0 - q ELSE q

\* parseFloat of a text printed by toFixed(2)
fixedToNumber(hundredths) == hundredths * (Scale \div 100)

\* a / b > c / d and a / b < c / d for positive b and d
RatGreater(a, b, c, d) == a * d > c * b

\* a / b <= c / d in place of a / b < c / d
RatLess_OrEqual(a, b, c, d) == a * d <= c * b

RatLess(a, b, c, d) == a * d < c * b

\* allDates.slice(startIdx, endIdx + 1).filter(date => sheetData.some(student => student.grades[date]))
relevantDatesInSelectedRange(data, dates, startIdx, endIdx) ==
    SelectSeq(SubSeq(dates, startIdx + 1, endIdx + 1),
              LAMBDA date : \E i \in 1..Len(data) : ObjHas(data[i].grades, date))

\* the accumulators kept across calls: the at-risk list and the category counts go on
\* from the snapshot held
analysisStart_Carried ==
    [studentAverages |-> <<>>,
     activityGrades |-> <<>>,
     studentsAtRisk |-> IF analysisResults # <<>>
                       THEN analysisResults[1].studentsAtRisk ELSE <<>>,
     gradeCategoryCounts |->
         IF analysisResults # <<>>
         THEN [b \in 1..3 |-> analysisResults[1].gradeCategoryCounts[b].value]
         ELSE <<0, 0, 0>>,
     bestStudentPerformanceData |-> <<>>,
     bestStudentName |-> <<>>,
     highestAverage |-> [n |-> 0 - Scale, d |-> 1],
     lowGradeActivitiesDetails |-> <<>>,
     highGradeActivitiesDetails |-> <<>>,
     totalGradesForProjection |-> 0,
     missingActivitiesCount |-> 0,
     studentActivitiesCount |-> 0,
     currentStudentChartData |-> <<>>]

\* the accumulators performAnalysis declares before the loop over the students
analysisStart ==
    [studentAverages |-> <<>>,
     activityGrades |-> <<>>,
     studentsAtRisk |-> <<>>,
     gradeCategoryCounts |-> <<0, 0, 0>>,
     bestStudentPerformanceData |-> <<>>,
     bestStudentName |-> <<>>,
     highestAverage |-> [n |-> 0 - Scale, d |-> 1],
     lowGradeActivitiesDetails |-> <<>>,
     highGradeActivitiesDetails |-> <<>>,
     totalGradesForProjection |-> 0,
     missingActivitiesCount |-> 0,
     studentActivitiesCount |-> 0,
     currentStudentChartData |-> <<>>]

\* obj[topic] = [item]: the list of the topic holds its last item only
pushDetail_KeepLast(obj, topic, item) == ObjPut(obj, topic, <<item>>)

\* obj[topic].push(item), creating the list when the topic has none
pushDetail(obj, topic, item) ==
    ObjPut(obj, topic, (IF ObjHas(obj, topic) THEN ObjGet(obj, topic) ELSE <<>>) \o <<item>>)

\* the buckets with ML counted in the third and NL in the second
bucketOf_Swapped(originalGrade) ==
    CASE originalGrade = <<"L">> -> 1
      [] originalGrade = <<"M", "L">> -> 3
      [] originalGrade = <<"N", "L">> -> 2
      [] OTHER -> 0

\* the index of the category bucket of a qualitative grade in upper case
bucketOf(originalGrade) ==
    CASE originalGrade = <<"L">> -> 1
      [] originalGrade = <<"M", "L">> -> 2
      [] originalGrade = <<"N", "L">> -> 3
      [] OTHER -> 0

\* the body of relevantDatesInSelectedRange.forEach for one student and one date
dateStep(student, date, acc) ==
    IF ~ObjHas(student.grades, date) THEN acc
    ELSE
      Bind(ObjGet(student.grades, date), LAMBDA activity :
      Bind(convertGradeToNumeric(activity.grade), LAMBDA numericGrade :
      Bind(toUpperCase(trim(activity.grade)), LAMBDA originalGrade :
      Bind(IF numericGrade.isNum /\ isQualitativeGrade(originalGrade)
           THEN bucketOf(originalGrade) ELSE 0, LAMBDA bucket :
      Bind(IF ObjHas(acc.activityGrades, activity.topic)
           THEN acc.activityGrades
           ELSE ObjPut(acc.activityGrades, activity.topic, [sum |-> 0, count |-> 0]),
           LAMBDA created :
      Bind(ObjGet(created, activity.topic), LAMBDA old :
      Bind([studentName |-> student.studentName, grade |-> activity.grade], LAMBDA item :
          [acc EXCEPT
             !.studentActivitiesCount = @ + 1,
             !.totalGradesForProjection =
                 IF numericGrade.isNum THEN @ + numericGrade.num ELSE @ + 3 * Scale,
             !.missingActivitiesCount = IF numericGrade.isNum THEN @ ELSE @ + 1,
             !.gradeCategoryCounts =
                 [b \in 1..3 |-> IF b = bucket THEN @[b] + 1 ELSE @[b]],
             !.activityGrades =
                 IF numericGrade.isNum
                 THEN ObjPut(created, activity.topic,
                             [sum |-> old.sum + numericGrade.num, count |-> old.count + 1])
                 ELSE created,
             !.currentStudentChartData =
                 Append(@, [date |-> date,
                            grade |-> IF numericGrade.isNum
                                      THEN Num(fixedToNumber(toFixed2(numericGrade.num, 1)))
                                      ELSE None]),
             !.lowGradeActivitiesDetails =
                 IF numericGrade.isNum /\ numericGrade.num < 6 * Scale
                 THEN pushDetail(@, activity.topic, item) ELSE @,
             !.highGradeActivitiesDetails =
                 IF numericGrade.isNum /\ numericGrade.num >= 8 * Scale
                 THEN pushDetail(@, activity.topic, item) ELSE @])))))))

RECURSIVE datesLoop_StopEarly(_, _, _, _)
\* datesLoop leaving out the last of the dates
datesLoop_StopEarly(student, relevant, k, acc) ==
    IF k >= Len(relevant) THEN acc
    ELSE datesLoop_StopEarly(student, relevant, k + 1, dateStep(student, relevant[k], acc))

RECURSIVE datesLoop(_, _, _, _)
\* relevantDatesInSelectedRange.forEach for one student, from the k-th date on
datesLoop(student, relevant, k, acc) ==
    IF k > Len(relevant) THEN acc
    ELSE datesLoop(student, relevant, k + 1, dateStep(student, relevant[k], acc))

RECURSIVE distinctInOrder(_)
\* filter((value, index, self) => self.indexOf(value) === index)
distinctInOrder(seq) ==
    IF seq = <<>> THEN <<>>
    ELSE Bind(distinctInOrder(SubSeq(seq, 1, Len(seq) - 1)), LAMBDA front :
         Bind(seq[Len(seq)], LAMBDA last :
             IF \E i \in 1..Len(front) : front[i] = last THEN front ELSE Append(front, last)))

\* lowGradeTopics of one student
lowGradeTopics(student, relevant) ==
    Bind(SelectSeq(entries(student.grades),
             LAMBDA e : /\ \E k \in 1..Len(relevant) : relevant[k] = e.key
                        /\ Bind(convertGradeToNumeric(e.val.grade), LAMBDA numGrade :
                               numGrade.isNum /\ numGrade.num < 6 * Scale)),
         LAMBDA low : distinctInOrder([i \in 1..Len(low) |-> low[i].val.topic]))

\* the template literal `${topic} (${date})`
detailText(topic, date) == topic \o <<" ", "(">> \o date \o <<")">>

\* the details of an at-risk student that also lists the entries graded below 6
riskDetails_LowGrades(student, relevant) ==
    Bind(SelectSeq(relevant,
             LAMBDA date : /\ ObjHas(student.grades, date)
                           /\ Bind(convertGradeToNumeric(ObjGet(student.grades, date).grade),
                                   LAMBDA numGrade : ~numGrade.isNum \/ numGrade.num < 6 * Scale)),
         LAMBDA pending :
             [i \in 1..Len(pending) |->
                 detailText(ObjGet(student.grades, pending[i]).topic, pending[i])])

\* the details of an at-risk student: "topic (date)" for each pending entry
riskDetails(student, relevant) ==
    Bind(SelectSeq(relevant,
             LAMBDA date : /\ ObjHas(student.grades, date)
                           /\ ~convertGradeToNumeric(ObjGet(student.grades, date).grade).isNum),
         LAMBDA pending :
             [i \in 1..Len(pending) |->
                 detailText(ObjGet(student.grades, pending[i]).topic, pending[i])])

\* the body of sheetData.forEach for one student
studentStep(student, relevant, acc) ==
    Bind([acc EXCEPT !.totalGradesForProjection = 0,
                     !.missingActivitiesCount = 0,
                     !.studentActivitiesCount = 0,
                     !.currentStudentChartData = <<>>], LAMBDA fresh :
    Bind(datesLoop(student, relevant, 1, fresh), LAMBDA done :
    Bind(IF done.studentActivitiesCount > 0 THEN done.totalGradesForProjection ELSE 0,
         LAMBDA avgN :
    Bind(IF done.studentActivitiesCount > 0 THEN done.studentActivitiesCount ELSE 1,
         LAMBDA avgD :
    Bind(RatGreater(avgN, avgD, done.highestAverage.n, done.highestAverage.d),
         LAMBDA better :
    Bind(RatLess(avgN, avgD, 5 * Scale, 1) /\ done.studentActivitiesCount > 0,
         LAMBDA atRisk :
        [done EXCEPT
           !.studentAverages =
               ObjPut(@, student.studentName,
                      [currentAverage |-> toFixed2(avgN, avgD),
                       missingActivities |-> done.missingActivitiesCount,
                       lowGradeTopics |-> lowGradeTopics(student, relevant)]),
           !.highestAverage = IF better THEN [n |-> avgN, d |-> avgD] ELSE @,
           !.bestStudentName = IF better THEN student.studentName ELSE @,
           !.bestStudentPerformanceData =
               IF better THEN done.currentStudentChartData ELSE @,
           !.studentsAtRisk =
               IF atRisk
               THEN Append(@, [name |-> student.studentName,
                               projectedAverage |-> toFixed2(avgN, avgD),
                               missing |-> done.missingActivitiesCount,
                               details |-> riskDetails(student, relevant)])
               ELSE @]))))))

RECURSIVE studentsLoop(_, _, _, _)
\* sheetData.forEach, from the i-th student on
studentsLoop(data, relevant, i, acc) ==
    IF i > Len(data) THEN acc
    ELSE studentsLoop(data, relevant, i + 1, studentStep(data[i], relevant, acc))

\* Object.entries(activityGrades).map(...): the average of each topic as text, held as
\* its count of hundredths; twoDecimals is FALSE for the literal text '0'
avgActivityGrades(activityGrades) ==
    Bind(entries(activityGrades), LAMBDA listed :
        [i \in 1..Len(listed) |->
            Bind(listed[i].val, LAMBDA data :
                [topic |-> listed[i].key,
                 average |-> IF data.count > 0 THEN toFixed2(data.sum, data.count) ELSE 0,
                 twoDecimals |-> data.count > 0])])

RECURSIVE sortByAverage(_, _)
\* [...seq].sort(compare) on parseFloat(average); Array.prototype.sort is stable.
\* ascending is TRUE for (a, b) => a - b and FALSE for (a, b) => b - a
sortByAverage(seq, ascending) ==
    IF seq = <<>> THEN <<>>
    ELSE Bind(sortByAverage(SubSeq(seq, 1, Len(seq) - 1), ascending), LAMBDA front :
         Bind(seq[Len(seq)], LAMBDA x :
         Bind(Cardinality({i \in 1..Len(front) :
                              IF ascending THEN front[i].average <= x.average
                                           ELSE front[i].average >= x.average}),
              LAMBDA pos :
             SubSeq(front, 1, pos) \o <<x>> \o SubSeq(front, pos + 1, Len(front)))))

\* .slice(0, 5).map(activity => ({...activity, students: details[activity.topic] || []}))
topFive(sorted, details) ==
    [i \in 1..(IF Len(sorted) < 5 THEN Len(sorted) ELSE 5) |->
        [topic |-> sorted[i].topic,
         average |-> sorted[i].average,
         twoDecimals |-> sorted[i].twoDecimals,
         students |-> IF ObjHas(details, sorted[i].topic)
                      THEN ObjGet(details, sorted[i].topic) ELSE <<>>]]

RECURSIVE gradeSum(_, _)
\* sumGradesForDate once the inner sheetData.forEach has passed the records of graded
gradeSum(graded, date) ==
    IF graded = <<>> THEN 0
    ELSE gradeSum(SubSeq(graded, 1, Len(graded) - 1), date)
         + convertGradeToNumeric(ObjGet(graded[Len(graded)].grades, date).grade).num

\* one point of groupPerformanceData whose count takes every entry of the date
groupPoint_CountPending(data, date) ==
    Bind(SelectSeq(data, LAMBDA student : ObjHas(student.grades, date)),
         LAMBDA graded :
             [date |-> date,
              averageGrade |-> IF graded # <<>>
                               THEN Num(fixedToNumber(toFixed2(gradeSum(graded, date),
                                                               Len(graded))))
                               ELSE None,
              grade |-> None])

\* one point of groupPerformanceData
groupPoint(data, date) ==
    Bind(SelectSeq(data, LAMBDA student :
             /\ ObjHas(student.grades, date)
             /\ convertGradeToNumeric(ObjGet(student.grades, date).grade).isNum),
         LAMBDA graded :
             [date |-> date,
              averageGrade |-> IF graded # <<>>
                               THEN Num(fixedToNumber(toFixed2(gradeSum(graded, date),
                                                               Len(graded))))
                               ELSE None,
              grade |-> None])

\* the snapshot performAnalysis stores once the range has passed its checks
analysisSnapshot(data, relevant) ==
    Bind(studentsLoop(data, relevant, 1, analysisStart), LAMBDA acc :
    Bind(avgActivityGrades(acc.activityGrades), LAMBDA averages :
        [studentAverages |-> acc.studentAverages,
         activitiesWithLowerGrades |->
             topFive(sortByAverage(averages, TRUE), acc.lowGradeActivitiesDetails),
         activitiesWithHigherGrades |->
             topFive(sortByAverage(averages, FALSE), acc.highGradeActivitiesDetails),
         studentsAtRisk |-> acc.studentsAtRisk,
         gradeCategoryCounts |->
             <<[name |-> "Logrado (L)", value |-> acc.gradeCategoryCounts[1]],
               [name |-> "Medianamente Logrado (ML)", value |-> acc.gradeCategoryCounts[2]],
               [name |-> "No Logrado (NL)", value |-> acc.gradeCategoryCounts[3]]>>,
         bestStudentPerformanceData |-> acc.bestStudentPerformanceData,
         bestStudentName |-> acc.bestStudentName,
         groupPerformanceData |->
             [k \in 1..Len(relevant) |-> groupPoint(data, relevant[k])]]))

\* performAnalysis without the test startIdx > endIdx
performAnalysis_UnorderedRange(data, dates, start, end) ==
    Bind(indexOf(dates, start), LAMBDA startIdx :
    Bind(indexOf(dates, end), LAMBDA endIdx :
        IF data = <<>> \/ start = <<>> \/ end = <<>>
        THEN [error |-> <<"Por favor, carga un archivo, selecciona una hoja y un rango de fechas.">>,
              analysisResults |-> <<>>]
        ELSE IF startIdx = -1 \/ endIdx = -1
        THEN [error |-> <<"Rango de fechas invalido. Asegurate de que las fechas seleccionadas existan y el inicio sea anterior o igual al fin.">>,
              analysisResults |-> <<>>]
        ELSE [error |-> <<>>,
              analysisResults |->
                  <<analysisSnapshot(data, relevantDatesInSelectedRange(data, dates,
                                                                         startIdx, endIdx))>>]))

\* performAnalysis: the error it sets and the snapshot it stores (<<>> is null)
performAnalysis(data, dates, start, end) ==
    Bind(indexOf(dates, start), LAMBDA startIdx :
    Bind(indexOf(dates, end), LAMBDA endIdx :
        IF data = <<>> \/ start = <<>> \/ end = <<>>
        THEN [error |-> <<"Por favor, carga un archivo, selecciona una hoja y un rango de fechas.">>,
              analysisResults |-> <<>>]
        ELSE IF startIdx = -1 \/ endIdx = -1 \/ startIdx > endIdx
        THEN [error |-> <<"Rango de fechas invalido. Asegurate de que las fechas seleccionadas existan y el inicio sea anterior o igual al fin.">>,
              analysisResults |-> <<>>]
        ELSE [error |-> <<>>,
              analysisResults |->
                  <<analysisSnapshot(data, relevantDatesInSelectedRange(data, dates,
                                                                         startIdx, endIdx))>>]))

-----------------------------------------------------------------------------
(* The screen: state, effect and handlers *)

\* the six pieces of state the sheet-processing effect and performAnalysis write
screenData ==
    [sheetData |-> sheetData, allDates |-> allDates, startDate |-> startDate,
     endDate |-> endDate, analysisResults |-> analysisResults, error |-> error]

\* the useEffect on [selectedFileName, selectedSheetName, uploadedWorkbooks, xlsxLoaded],
\* run on the state cur with the new values of its dependencies; did names its branch
sheetEffect(loaded, workbooks, fileName, sheetName, cur) ==
    IF ~loaded THEN [data |-> cur, did |-> "skipped"]
    ELSE IF fileName \in DOMAIN workbooks /\ sheetName # ""
    THEN Bind(processXLSXSheetData(workbooks[fileName], sheetName), LAMBDA parsed :
             IF parsed.threw
             THEN [data |-> [cur EXCEPT
                               !.error = <<"Error al procesar los datos de la hoja.">>,
                               !.sheetData = <<>>,
                               !.allDates = <<>>,
                               !.analysisResults = <<>>],
                   did |-> "threw"]
             ELSE [data |-> [cur EXCEPT
                               !.sheetData = parsed.data,
                               !.allDates = parsed.dates,
                               !.startDate = IF Len(parsed.dates) > 0
                                             THEN parsed.dates[1] ELSE @,
                               !.endDate = IF Len(parsed.dates) > 0
                                           THEN parsed.dates[Len(parsed.dates)] ELSE @,
                               !.analysisResults = <<>>,
                               !.error = <<>>],
                   did |-> "parsed"])
    ELSE [data |-> [cur EXCEPT !.sheetData = <<>>, !.allDates = <<>>,
                               !.analysisResults = <<>>, !.error = <<>>],
          did |-> "cleared"]

\* the history of a handler: its name, the branch the sheet effect took after it
\* ("none" when the effect did not run), and whether a snapshot was held before it
Op(name, did) == [op |-> name, effect |-> did, hadResults |-> analysisResults # <<>>]

\* the state writes of one render
Write(d) ==
    /\ sheetData' = d.sheetData
    /\ allDates' = d.allDates
    /\ startDate' = d.startDate
    /\ endDate' = d.endDate
    /\ analysisResults' = d.analysisResults
    /\ error' = d.error

\* one render after a handler: the writes of the sheet effect, and the history
Render(name, eff) ==
    /\ Write(eff.data)
    /\ lastOp' = Op(name, eff.did)

\* scriptXLSX.onload
ScriptOnload ==
    /\ scriptPending
    /\ scriptPending' = FALSE
    /\ xlsxLoaded' = TRUE
    /\ Render("scriptXLSX.onload",
              sheetEffect(TRUE, uploadedWorkbooks, selectedFileName, selectedSheetName,
                          screenData))
    /\ UNCHANGED feedbackVars
    /\ UNCHANGED routeVars
    /\ UNCHANGED <<gradeCell, converted, disk, readers, uploadedWorkbooks,
                   selectedFileName, selectedSheetName, picked>>

\* scriptXLSX.onerror
ScriptOnerror ==
    /\ scriptPending
    /\ scriptPending' = FALSE
    /\ error' = <<"Error al cargar la libreria XLSX.">>
    /\ lastOp' = Op("scriptXLSX.onerror", "none")
    /\ UNCHANGED feedbackVars
    /\ UNCHANGED routeVars
    /\ UNCHANGED <<gradeCell, converted, disk, xlsxLoaded, readers, uploadedWorkbooks,
                   selectedFileName, selectedSheetName, sheetData, allDates,
                   startDate, endDate, analysisResults, picked>>

\* handleFileUpload on the files chosen in the file input: every reader of the call
\* shares newUploadedWorkbooks and sees the selectedFileName of the render of the call
HandleFileUpload(files) ==
    /\ xlsxLoaded
    /\ files # {}
    /\ files \cap picked = {}
    /\ picked' = picked \cup files
    /\ error' = <<>>
    /\ readers' = readers \cup {[newUploadedWorkbooks |-> uploadedWorkbooks,
                                 selectedFileName |-> selectedFileName,
                                 files |-> files]}
    /\ lastOp' = Op("handleFileUpload", "none")
    /\ UNCHANGED feedbackVars
    /\ UNCHANGED routeVars
    /\ UNCHANGED <<gradeCell, converted, disk, xlsxLoaded, scriptPending,
                   uploadedWorkbooks, selectedFileName, selectedSheetName, sheetData,
                   allDates, startDate, endDate, analysisResults>>

\* the readers left once the reader of file in the call r has completed, r's shared
\* map being now shared
readersAfter(r, file, shared) ==
    (readers \ {r}) \cup
        (IF r.files = {file} THEN {}
         ELSE {[r EXCEPT !.files = @ \ {file}, !.newUploadedWorkbooks = shared]})

\* reader.onload of the reader of file started by the call r
ReaderOnload(r, file) ==
    /\ r \in readers
    /\ file \in r.files
    /\ LET workbook == disk[file]
           shared == (file :> workbook) @@ r.newUploadedWorkbooks
           first == r.selectedFileName = ""
           fileName == IF first THEN file ELSE selectedFileName
           sheetName == IF first /\ Len(workbook.SheetNames) > 0
                        THEN workbook.SheetNames[1] ELSE selectedSheetName
       IN  IF workbook.readable
           THEN /\ uploadedWorkbooks' = shared
                /\ selectedFileName' = fileName
                /\ selectedSheetName' = sheetName
                /\ readers' = readersAfter(r, file, shared)
                /\ Render("reader.onload",
                          sheetEffect(xlsxLoaded, shared, fileName, sheetName, screenData))
           ELSE /\ error' = <<"Error al procesar el archivo XLSX", file>>
                /\ readers' = readersAfter(r, file, r.newUploadedWorkbooks)
                /\ lastOp' = Op("reader.onload", "none")
                /\ UNCHANGED <<uploadedWorkbooks, selectedFileName, selectedSheetName,
                               sheetData, allDates, startDate, endDate, analysisResults>>
    /\ UNCHANGED feedbackVars
    /\ UNCHANGED routeVars
    /\ UNCHANGED <<gradeCell, converted, disk, xlsxLoaded, scriptPending, picked>>

\* reader.onerror of the reader of file started by the call r
ReaderOnerror(r, file) ==
    /\ r \in readers
    /\ file \in r.files
    /\ error' = <<"Error al leer el archivo", file>>
    /\ readers' = readersAfter(r, file, r.newUploadedWorkbooks)
    /\ lastOp' = Op("reader.onerror", "none")
    /\ UNCHANGED feedbackVars
    /\ UNCHANGED routeVars
    /\ UNCHANGED <<gradeCell, converted, disk, xlsxLoaded, scriptPending,
                   uploadedWorkbooks, selectedFileName, selectedSheetName, sheetData,
                   allDates, startDate, endDate, analysisResults, picked>>

\* onChange of the file select
SelectFile(value) ==
    /\ xlsxLoaded
    /\ DOMAIN uploadedWorkbooks # {}
    /\ value \in DOMAIN uploadedWorkbooks \cup {""}
    /\ value # selectedFileName
    /\ LET sheetName == IF value \in DOMAIN uploadedWorkbooks
                           /\ Len(uploadedWorkbooks[value].SheetNames) > 0
                        THEN uploadedWorkbooks[value].SheetNames[1] ELSE ""
       IN  /\ selectedFileName' = value
           /\ selectedSheetName' = sheetName
           /\ Render("file-select",
                     sheetEffect(xlsxLoaded, uploadedWorkbooks, value, sheetName, screenData))
    /\ UNCHANGED feedbackVars
    /\ UNCHANGED routeVars
    /\ UNCHANGED <<gradeCell, converted, disk, xlsxLoaded, scriptPending, readers,
                   uploadedWorkbooks, picked>>

\* onChange of the sheet select
SelectSheet(value) ==
    /\ xlsxLoaded
    /\ selectedFileName \in DOMAIN uploadedWorkbooks
    /\ Len(uploadedWorkbooks[selectedFileName].SheetNames) > 0
    /\ \/ value = ""
       \/ \E i \in 1..Len(uploadedWorkbooks[selectedFileName].SheetNames) :
              uploadedWorkbooks[selectedFileName].SheetNames[i] = value
    /\ value # selectedSheetName
    /\ selectedSheetName' = value
    /\ Render("sheet-select",
              sheetEffect(xlsxLoaded, uploadedWorkbooks, selectedFileName, value, screenData))
    /\ UNCHANGED feedbackVars
    /\ UNCHANGED routeVars
    /\ UNCHANGED <<gradeCell, converted, disk, xlsxLoaded, scriptPending, readers,
                   uploadedWorkbooks, selectedFileName, picked>>

\* onChange of the start-date select (disabled while sheetData is empty)
SetStartDate(value) ==
    /\ xlsxLoaded
    /\ sheetData # <<>>
    /\ \E i \in 1..Len(allDates) : allDates[i] = value
    /\ value # startDate
    /\ startDate' = value
    /\ lastOp' = Op("start-date", "none")
    /\ UNCHANGED feedbackVars
    /\ UNCHANGED routeVars
    /\ UNCHANGED <<gradeCell, converted, disk, xlsxLoaded, scriptPending, readers,
                   uploadedWorkbooks, selectedFileName, selectedSheetName, sheetData,
                   allDates, endDate, analysisResults, error, picked>>

\* onChange of the end-date select (disabled while sheetData is empty)
SetEndDate(value) ==
    /\ xlsxLoaded
    /\ sheetData # <<>>
    /\ \E i \in 1..Len(allDates) : allDates[i] = value
    /\ value # endDate
    /\ endDate' = value
    /\ lastOp' = Op("end-date", "none")
    /\ UNCHANGED feedbackVars
    /\ UNCHANGED routeVars
    /\ UNCHANGED <<gradeCell, converted, disk, xlsxLoaded, scriptPending, readers,
                   uploadedWorkbooks, selectedFileName, selectedSheetName, sheetData,
                   allDates, startDate, analysisResults, error, picked>>

\* the two pieces of state performAnalysis writes
Outcome(done) ==
    /\ error' = done.error
    /\ analysisResults' = done.analysisResults

\* onClick of "Realizar Analisis" (disabled while a piece of input is missing)
PerformAnalysis ==
    /\ xlsxLoaded
    /\ sheetData # <<>> /\ startDate # <<>> /\ endDate # <<>>
    /\ Outcome(performAnalysis(sheetData, allDates, startDate, endDate))
    /\ lastOp' = Op("performAnalysis", "none")
    /\ UNCHANGED feedbackVars
    /\ UNCHANGED routeVars
    /\ UNCHANGED <<gradeCell, converted, disk, xlsxLoaded, scriptPending, readers,
                   uploadedWorkbooks, selectedFileName, selectedSheetName, sheetData,
                   allDates, startDate, endDate, picked>>

\* performAnalysis called whatever the state of its button
InvokeAnalysis ==
    /\ Outcome(performAnalysis(sheetData, allDates, startDate, endDate))
    /\ lastOp' = Op("performAnalysis", "none")
    /\ UNCHANGED feedbackVars
    /\ UNCHANGED routeVars
    /\ UNCHANGED <<gradeCell, converted, disk, xlsxLoaded, scriptPending, readers,
                   uploadedWorkbooks, selectedFileName, selectedSheetName, sheetData,
                   allDates, startDate, endDate, picked>>

\* what a feedback handler leaves alone
FeedbackFrame ==
    UNCHANGED <<gradeCell, converted, disk, xlsxLoaded, scriptPending, readers,
                uploadedWorkbooks, selectedFileName, selectedSheetName, sheetData,
                allDates, startDate, endDate, analysisResults, error, picked, routeVars>>

\* generateFeedback up to its first await, whatever the state of the button
GenerateFeedback_AnyTime(studentName, data) ==
    /\ analysisResults # <<>>
    /\ isGeneratingFeedback' = TRUE
    /\ llmFeedback' = << <<"">> >>
    /\ feedbackStudentName' = studentName
    /\ showFeedbackModal' = TRUE
    /\ requests' = Append(requests, [studentName |-> studentName,
                                      currentAverage |-> data.currentAverage,
                                      missingActivities |-> data.missingActivities,
                                      lowGradeTopics |-> data.lowGradeTopics])
    /\ lastOp' = Op("generateFeedback", "none")
    /\ FeedbackFrame

\* onClick of "Generar Feedback" in the row of a student (the table is rendered while
\* a snapshot is held; the button is disabled while isGeneratingFeedback):
\* generateFeedback up to its first await, the fetch being sent
GenerateFeedback(studentName, data) ==
    /\ analysisResults # <<>>
    /\ ~isGeneratingFeedback
    /\ isGeneratingFeedback' = TRUE
    /\ llmFeedback' = << <<"">> >>
    /\ feedbackStudentName' = studentName
    /\ showFeedbackModal' = TRUE
    /\ requests' = Append(requests, [studentName |-> studentName,
                                      currentAverage |-> data.currentAverage,
                                      missingActivities |-> data.missingActivities,
                                      lowGradeTopics |-> data.lowGradeTopics])
    /\ lastOp' = Op("generateFeedback", "none")
    /\ FeedbackFrame

\* the requests once the i-th has settled
settled(i) == SubSeq(requests, 1, i - 1) \o SubSeq(requests, i + 1, Len(requests))

\* the rest of generateFeedback once the i-th request has settled: the text set by the
\* branch taken, then finally
Settle(i, name, text) ==
    /\ i \in 1..Len(requests)
    /\ llmFeedback' = text
    /\ isGeneratingFeedback' = FALSE
    /\ requests' = settled(i)
    /\ lastOp' = Op(name, "none")
    /\ UNCHANGED <<showFeedbackModal, feedbackStudentName>>
    /\ FeedbackFrame

\* response.ok: setLlmFeedback(result.feedback); feedback is <<>> when the payload has
\* no feedback field
ResponseOk(i, feedback) ==
    Settle(i, "response.ok", IF feedback = <<>> THEN <<>> ELSE <<feedback>>)

\* the else branch, dropping the snapshot as well
ResponseNotOk_DropsSnapshot(i, err) ==
    /\ i \in 1..Len(requests)
    /\ llmFeedback' = << <<"No se pudo generar el feedback. Error: ",
                            IF err = <<>> THEN "Error desconocido del servidor." ELSE err[1],
                            " Por favor, verifica la consola del servidor de Next.js para mas detalles y asegurate de que tu clave de API de Gemini este configurada correctamente en .env.local (GEMINI_API_KEY).">> >>
    /\ isGeneratingFeedback' = FALSE
    /\ requests' = settled(i)
    /\ analysisResults' = <<>>
    /\ lastOp' = Op("response.error", "none")
    /\ UNCHANGED <<showFeedbackModal, feedbackStudentName>>
    /\ UNCHANGED <<gradeCell, converted, disk, xlsxLoaded, scriptPending, readers,
                   uploadedWorkbooks, selectedFileName, selectedSheetName, sheetData,
                   allDates, startDate, endDate, error, picked, routeVars>>

\* !response.ok: the message built around result.error || 'Error desconocido del
\* servidor.'; err is <<>> when the payload has no error field
ResponseNotOk(i, err) ==
    Settle(i, "response.error",
           << <<"No se pudo generar el feedback. Error: ",
                IF err = <<>> THEN "Error desconocido del servidor." ELSE err[1],
                " Por favor, verifica la consola del servidor de Next.js para mas detalles y asegurate de que tu clave de API de Gemini este configurada correctamente en .env.local (GEMINI_API_KEY).">> >>)

\* the catch without the finally: isGeneratingFeedback is left as it is
RequestFails_NoFinally(i) ==
    /\ i \in 1..Len(requests)
    /\ llmFeedback' = << <<"Error al conectar con el servidor para generar el feedback. Revisa tu conexion a internet o la consola del navegador.">> >>
    /\ requests' = settled(i)
    /\ lastOp' = Op("catch", "none")
    /\ UNCHANGED <<isGeneratingFeedback, showFeedbackModal, feedbackStudentName>>
    /\ FeedbackFrame

\* fetch rejects, or response.json() throws on a body that is not JSON: the catch
RequestFails(i) ==
    Settle(i, "catch",
           << <<"Error al conectar con el servidor para generar el feedback. Revisa tu conexion a internet o la consola del navegador.">> >>)

\* onClick of "Cerrar" (the modal is rendered while a snapshot is held and
\* showFeedbackModal)
CloseFeedbackModal ==
    /\ analysisResults # <<>>
    /\ showFeedbackModal
    /\ showFeedbackModal' = FALSE
    /\ lastOp' = Op("close-modal", "none")
    /\ UNCHANGED <<llmFeedback, isGeneratingFeedback, feedbackStudentName, requests>>
    /\ FeedbackFrame

-----------------------------------------------------------------------------
(* The feedback route. A JSON value that may be absent is a sequence of length 0
   (undefined or null) or 1 *)

\* NextResponse.json(body, {status}): a member that is undefined is left out of the body
jsonResponse(status, feedback, err, outbound) ==
    [status |-> status, body |-> [feedback |-> feedback, error |-> err],
     outbound |-> outbound]

\* the catch of POST
caught(outbound) ==
    jsonResponse(500, <<>>, <<"Error interno del servidor al generar el feedback.">>, outbound)

\* request.json(), the destructuring of its value or the template literal of the prompt
\* throws: the body is not JSON, is null, or has a lowGradeTopics that is undefined or
\* a text (which has a length and no join)
promptThrows(body) ==
    \/ body.kind \in {"invalid", "null"}
    \/ body.lowGradeTopics.kind = "undefined"
    \/ body.lowGradeTopics.kind = "text" /\ Len(body.lowGradeTopics.value) > 0

\* step 7 of POST on the parsed answer of the remote API, where every null met by a
\* member access throws
extractFeedback(result) ==
    IF result = <<>> THEN caught(1)
    ELSE IF result[1].candidates = <<>> \/ result[1].candidates[1] = <<>>
    THEN jsonResponse(500, <<>>,
             <<"No se pudo generar el feedback. Estructura de respuesta inesperada.">>, 1)
    ELSE Bind(result[1].candidates[1][1], LAMBDA first :
        IF first = <<>> THEN caught(1)
        ELSE IF first[1].content = <<>> \/ first[1].content[1].parts = <<>>
                \/ first[1].content[1].parts[1] = <<>>
        THEN jsonResponse(500, <<>>,
                 <<"No se pudo generar el feedback. Estructura de respuesta inesperada.">>, 1)
        ELSE Bind(first[1].content[1].parts[1][1], LAMBDA part :
            IF part = <<>> THEN caught(1)
            ELSE jsonResponse(200, part[1].text, <<>>, 1)))

\* POST: the response to a request, and the number of outbound calls it made
POST(req) ==
    IF req.apiKey = <<>> \/ req.apiKey = <<"">>
    THEN jsonResponse(500, <<>>,
             <<"La clave de API de Gemini no esta configurada en el servidor.">>, 0)
    ELSE IF promptThrows(req.body) THEN caught(0)
    ELSE IF req.remote.kind \in {"rejects", "notJson"} THEN caught(1)
    ELSE extractFeedback(req.remote.result)

\* the feedback route answers the request handed to it
Post ==
    /\ postRequest # <<>>
    /\ postResponse = <<>>
    /\ postResponse' = <<POST(postRequest[1])>>
    /\ UNCHANGED postRequest
    /\ UNCHANGED <<gradeCell, converted, disk, xlsxLoaded, scriptPending, readers,
                   uploadedWorkbooks, selectedFileName, selectedSheetName, sheetData,
                   allDates, startDate, endDate, analysisResults, error, picked,
                   feedbackVars, lastOp>>

-----------------------------------------------------------------------------
(* The grade converters on one cell *)

\* the four converters applied to one raw cell
ConvertCell ==
    /\ converted = <<>>
    /\ converted' = <<[main |-> convertGradeToNumeric(gradeCell),
                       quantitative |-> convertGradeToNumericQuantitative(gradeCell),
                       pending |-> convertGradeToNumericPending(gradeCell),
                       progress |-> convertGradeToNumericProgress(gradeCell)]>>
    /\ UNCHANGED gradeCell
    /\ UNCHANGED appVars

-----------------------------------------------------------------------------
(* Inputs: raw cells, grids and workbooks *)

\* the characters of the raw cells handed to the converters
CellChars ==
    {" ", "-", ".", "0", "1", "5", "7", "8", "9", "L", "M", "N", "l", "m", "n", "a", "b", "c"}

\* the grid of the given date labels, topics and student rows (each a name and its
\* grades); column 0 of rows 0 and 1 is unused
GridOf(headers, themes, names, grades) ==
    LET corner == <<"N", "o", "m", "b", "r", "e">>
    IN  <<(<<corner>> \o headers), (<<corner>> \o themes)>>
            \o [i \in 1..Len(names) |-> <<names[i]>> \o grades[i]]

\* what XLSX.read gives for a file holding the given sheets, in order
Workbook(sheetNames, sheets) ==
    [readable |-> TRUE, SheetNames |-> sheetNames, Sheets |-> sheets]

\* a file XLSX.read throws on
Unreadable == [readable |-> FALSE, SheetNames |-> <<>>, Sheets |-> << >>]

\* a disk holding one file of one sheet
OneSheetDisk(grid) == "notas.xlsx" :> Workbook(<<"Hoja1">>, "Hoja1" :> grid)

\* the pairs of elements of S
Pairs(S) == {P \in SUBSET S : Cardinality(P) = 2}

T_Ana == <<"A", "n", "a">>
T_AnaPadded == <<" ", "A", "n", "a", " ">>
T_Beto == <<"B", "e", "t", "o">>
T_Blank == <<" ">>
T_D1 == <<"D", "1">>
T_D2 == <<"D", "2">>
T_D2Padded == <<"D", "2", " ">>
T_T1 == <<"T", "1">>
T_T1Padded == <<" ", "T", "1">>
T_T2 == <<"T", "2">>
T_7Padded == <<" ", "7">>
T_x == <<"x">>
T_7 == <<"7">>
T_85 == <<"8", "5">>
T_L == <<"L">>
T_nl == <<"n", "l">>
T_ml == <<"m", "l">>
T_499 == <<"4", ".", "9", "9">>
T_5 == <<"5">>
T_4996 == <<"4", ".", "9", "9", "6">>
T_Caro == <<"C", "a", "r", "o">>
T_m5 == <<"-", "5">>
T_1 == <<"1">>
T_2 == <<"2">>

-----------------------------------------------------------------------------
(* Specifications *)

\* the screen once mounted, with the XLSX library present or still to load
Mounted(loaded) ==
    /\ xlsxLoaded = loaded
    /\ scriptPending = ~loaded
    /\ readers = {}
    /\ uploadedWorkbooks = << >>
    /\ selectedFileName = ""
    /\ selectedSheetName = ""
    /\ sheetData = <<>>
    /\ allDates = <<>>
    /\ startDate = <<>>
    /\ endDate = <<>>
    /\ analysisResults = <<>>
    /\ error = <<>>
    /\ picked = {}
    /\ llmFeedback = << <<"">> >>
    /\ isGeneratingFeedback = FALSE
    /\ showFeedbackModal = FALSE
    /\ feedbackStudentName = <<>>
    /\ requests = <<>>
    /\ lastOp = [op |-> "mount", effect |-> "skipped", hadResults |-> FALSE]

NoCell ==
    /\ gradeCell = <<>>
    /\ converted = <<>>

\* no request has been handed to the feedback route
NoPost ==
    /\ postRequest = <<>>
    /\ postResponse = <<>>

Upload == \E files \in (SUBSET DOMAIN disk) \ {{}} : HandleFileUpload(files)

Onload == \E r \in readers : \E file \in r.files : ReaderOnload(r, file)

Onerror == \E r \in readers : \E file \in r.files : ReaderOnerror(r, file)

\* the disk holds one file of one sheet: a grid of at most MaxStudentRows student rows
\* and at most MaxDateCols date columns whose names, date labels and topics are drawn
\* from the given sets and whose grades are drawn from one of the sets of gradeSets
OneGridOnDisk(names, labels, topics, gradeSets) ==
    \E r \in 0..MaxStudentRows, c \in 0..MaxDateCols, gradeSet \in gradeSets :
        \E headers \in [1..c -> labels], themes \in [1..c -> topics],
           rowNames \in [1..r -> names], grades \in [1..r -> [1..c -> gradeSet]] :
            disk = OneSheetDisk(GridOf(headers, themes, rowNames, grades))

\* the converters on every raw cell of at most MaxLen characters of CellChars
InitNorm ==
    /\ \E n \in 0..MaxLen : gradeCell \in [1..n -> CellChars]
    /\ converted = <<>>
    /\ disk = << >>
    /\ NoPost
    /\ Mounted(TRUE)

SpecNorm == InitNorm /\ [][ConvertCell]_vars

\* one sheet, uploaded and ingested
InitIngest ==
    /\ NoCell
    /\ OneGridOnDisk({T_Blank, T_AnaPadded, T_Beto}, {T_D1, T_D2Padded}, {T_T1Padded},
                     Pairs({<<>>, T_x, T_7Padded}))
    /\ NoPost
    /\ Mounted(TRUE)

NextIngest == Upload \/ Onload

SpecIngest == InitIngest /\ [][NextIngest]_vars

\* a workbook of two sheets (the grades of two students over two dates, and a sheet of
\* two rows only), a workbook whose sheet has a student and no date column, and a file
\* XLSX.read cannot parse
CatalogDisk ==
    ("a.xlsx" :> Workbook(<<"S1", "S2">>,
                     ("S1" :> GridOf(<<T_D1, T_D2>>, <<T_T1, T_T2>>, <<T_Ana, T_Beto>>,
                                     <<(<<T_L, <<"M", "L">> >>), (<<(<<>>), T_7>>)>>))
                     @@ ("S2" :> GridOf(<<T_D1>>, <<T_T1>>, <<>>, <<>>))))
    @@ ("b.xlsx" :> Workbook(<<"S1">>, "S1" :> GridOf(<<>>, <<>>, <<T_Ana>>, <<(<<>>)>>)))
    @@ ("c.xlsx" :> Unreadable)

ChooseFile == \E value \in DOMAIN uploadedWorkbooks \cup {""} : SelectFile(value)

ChooseSheet == \E value \in {"", "S1", "S2", "Hoja1"} : SelectSheet(value)

ChooseStart == \E i \in 1..Len(allDates) : SetStartDate(allDates[i])

ChooseEnd == \E i \in 1..Len(allDates) : SetEndDate(allDates[i])

\* the screen from its mounting, the user picking among the files of CatalogDisk
Init ==
    /\ NoCell
    /\ disk = CatalogDisk
    /\ NoPost
    /\ Mounted(FALSE)

Next ==
    \/ ScriptOnload
    \/ ScriptOnerror
    \/ Upload
    \/ Onload
    \/ Onerror
    \/ ChooseFile
    \/ ChooseSheet
    \/ ChooseStart
    \/ ChooseEnd
    \/ PerformAnalysis

Spec == Init /\ [][Next]_vars

\* the files of CatalogDisk picked in one call or in several, every reader completing
\* with onload
InitUploads ==
    /\ NoCell
    /\ disk = CatalogDisk
    /\ NoPost
    /\ Mounted(TRUE)

NextUploads == Upload \/ Onload

SpecUploads == InitUploads /\ [][NextUploads]_vars

\* a workbook of two sheets, a workbook of one sheet and a workbook XLSX.read gives
\* no sheet for
SheetlessDisk ==
    ("a.xlsx" :> Workbook(<<"S1", "S2">>,
                     ("S1" :> GridOf(<<T_D1>>, <<T_T1>>, <<T_Ana>>, <<(<<T_7>>)>>))
                     @@ ("S2" :> GridOf(<<T_D1>>, <<T_T1>>, <<>>, <<>>))))
    @@ ("b.xlsx" :> Workbook(<<"S1">>, "S1" :> GridOf(<<T_D2>>, <<T_T2>>, <<T_Beto>>,
                                                       <<(<<T_L>>)>>)))
    @@ ("e.xlsx" :> Workbook(<<>>, << >>))

\* the files of SheetlessDisk picked in one call or in several, and the two selects
InitSelection ==
    /\ NoCell
    /\ disk = SheetlessDisk
    /\ NoPost
    /\ Mounted(TRUE)

NextSelection == Upload \/ Onload \/ ChooseFile \/ ChooseSheet

SpecSelection == InitSelection /\ [][NextSelection]_vars

\* a sheet whose first and last date columns carry the same label
RepeatedDateDisk ==
    OneSheetDisk(GridOf(<<T_D1, T_D2, T_D1>>, <<T_T1, T_T2, T_T1>>, <<T_Ana>>,
                        <<(<<T_7, T_7, T_7>>)>>))

\* one sheet, ingested, then analysed over the ranges the two date selects offer
InitRange ==
    /\ NoCell
    /\ \/ OneGridOnDisk({T_Ana}, {T_D1, T_D2}, {T_T1}, {{T_x, T_7}})
       \/ disk = RepeatedDateDisk
    /\ NoPost
    /\ Mounted(TRUE)

NextRange == Upload \/ Onload \/ ChooseStart \/ ChooseEnd \/ PerformAnalysis

SpecRange == InitRange /\ [][NextRange]_vars

\* a sheet of three active dates: one student graded 9, x and 6, the other only on
\* the second date
ExampleDisk ==
    OneSheetDisk(GridOf(<<T_D1, T_D2, <<"D", "3">> >>, <<T_T1, T_T2, <<"T", "3">> >>,
                        <<T_Ana, T_Beto>>,
                        <<(<< <<"9">>, T_x, <<"6">> >>), (<< <<>>, T_7, <<>> >>)>>))

\* one sheet, ingested, then analysed from each start date to the last date
InitAvg ==
    /\ NoCell
    /\ \/ OneGridOnDisk({T_Ana, T_Beto}, {T_D1, T_D2}, {T_T1}, {{T_x, T_7}})
       \/ disk = ExampleDisk
    /\ NoPost
    /\ Mounted(TRUE)

NextAvg == Upload \/ Onload \/ ChooseStart \/ PerformAnalysis

SpecAvg == InitAvg /\ [][NextAvg]_vars

\* one sheet whose cells are empty or hold a 7, ingested, then analysed over the ranges
\* the two date selects offer
InitKeys ==
    /\ NoCell
    /\ \/ OneGridOnDisk({T_Ana}, {T_D1, T_D2}, {T_T1}, {{<<>>, T_7}})
       \/ disk = ExampleDisk
    /\ NoPost
    /\ Mounted(TRUE)

SpecKeys == InitKeys /\ [][NextRange]_vars

\* a sheet of one date and three students graded 4.99, 5 and 7
ThresholdDisk ==
    OneSheetDisk(GridOf(<<T_D1>>, <<T_T1>>, <<T_Ana, T_Beto, T_Caro>>,
                        <<(<<T_499>>), (<<T_5>>), (<<T_7>>)>>))

\* a sheet of two dates and three students: 4.99, 5 and 7 on the first date, two
\* uninterpretable cells and a 7 on the second
GroupDisk ==
    OneSheetDisk(GridOf(<<T_D1, T_D2>>, <<T_T1, T_T2>>, <<T_Ana, T_Beto, T_Caro>>,
                        <<(<<T_499, T_x>>), (<<T_5, T_x>>), (<<T_7, T_7>>)>>))

\* a sheet of two dates and three students whose cells are letter codes in either
\* case, a number and an uninterpretable text
CategoryDisk ==
    OneSheetDisk(GridOf(<<T_D1, T_D2>>, <<T_T1, T_T2>>, <<T_Ana, T_Beto, T_Caro>>,
                        <<(<<T_L, T_ml>>), (<<(<<"l">>), T_7>>), (<<T_nl, T_x>>)>>))

\* one sheet, ingested, then analysed over the range the screen sets after ingestion
InitSnapshot ==
    /\ NoCell
    /\ \/ OneGridOnDisk({T_Ana, T_Beto}, {T_D1, T_D2}, {T_T1}, {{T_x, T_7}})
       \/ OneGridOnDisk({T_Ana}, {T_D1, T_D2}, {T_T1}, {{T_x, T_nl}})
       \/ disk = ThresholdDisk
       \/ disk = GroupDisk
       \/ disk = CategoryDisk
    /\ NoPost
    /\ Mounted(TRUE)

NextSnapshot == Upload \/ Onload \/ PerformAnalysis

SpecSnapshot == InitSnapshot /\ [][NextSnapshot]_vars

\* a sheet of two dates and two students of the same name: x and 7, then nl and L
NamesakeDisk ==
    OneSheetDisk(GridOf(<<T_D1, T_D2>>, <<T_T1, T_T2>>, <<T_Ana, T_Ana>>,
                        <<(<<T_x, T_7>>), (<<T_nl, T_L>>)>>))

\* a sheet of one date and one student graded 4.996
NearFiveDisk ==
    OneSheetDisk(GridOf(<<T_D1>>, <<T_T1>>, <<T_Ana>>, <<(<<T_4996>>)>>))

\* one sheet whose students may share a name, ingested and analysed
InitRecords ==
    /\ NoCell
    /\ \/ OneGridOnDisk({T_Ana, T_Beto}, {T_D1, T_D2}, {T_T1}, {{T_7, T_nl}})
       \/ OneGridOnDisk({T_Ana}, {T_D1, T_D2}, {T_T1}, {{T_x, T_7}})
       \/ disk = NamesakeDisk
       \/ disk = NearFiveDisk
    /\ NoPost
    /\ Mounted(TRUE)

SpecRecords == InitRecords /\ [][NextSnapshot]_vars

\* one sheet whose cells are letter codes, numbers and uninterpretable texts, ingested
\* and analysed
InitCategory ==
    /\ NoCell
    /\ \/ OneGridOnDisk({T_Ana}, {T_D1, T_D2}, {T_T1},
                         {{T_L, T_nl}, {T_ml, T_x}, {(<<"l">>), T_7}})
       \/ disk = CategoryDisk
    /\ NoPost
    /\ Mounted(TRUE)

SpecCategory == InitCategory /\ [][NextSnapshot]_vars

\* one sheet whose topics may be named by numbers and whose grades may be negative,
\* ingested and analysed
InitRank ==
    /\ NoCell
    /\ OneGridOnDisk({T_Ana, T_Beto}, {T_D1, T_D2}, {T_1, T_2, T_T1}, {{T_7, T_m5}})
    /\ NoPost
    /\ Mounted(TRUE)

SpecRank == InitRank /\ [][NextSnapshot]_vars

\* one sheet, some of whose rows may have no name, ingested; performAnalysis is then
\* called on whatever the screen holds
InitInvoke ==
    /\ NoCell
    /\ OneGridOnDisk({T_Blank, T_Ana}, {T_D1, T_D2}, {T_T1}, {{T_x, T_7}})
    /\ NoPost
    /\ Mounted(TRUE)

NextInvoke == Upload \/ Onload \/ InvokeAnalysis

SpecInvoke == InitInvoke /\ [][NextInvoke]_vars

\* a click on the feedback button of one of the rows of the table
StartFeedback ==
    /\ analysisResults # <<>>
    /\ \E k \in 1..Len(analysisResults[1].studentAverages) :
          GenerateFeedback(entries(analysisResults[1].studentAverages)[k].key,
                           entries(analysisResults[1].studentAverages)[k].val)

\* the answers of the feedback route: a feedback text, or a payload without one
FeedbackArrives ==
    \E i \in 1..Len(requests), feedback \in {<<>>, <<"Sigue asi.">>} : ResponseOk(i, feedback)

\* the refusals of the feedback route: with an error text, or a payload without one
ErrorArrives ==
    \E i \in 1..Len(requests),
       err \in {<<>>, <<"Error interno del servidor al generar el feedback.">>} :
        ResponseNotOk(i, err)

Rejects == \E i \in 1..Len(requests) : RequestFails(i)

\* one sheet ingested and analysed, the user asking for feedback, closing the modal,
\* moving the start date and analysing again while the requests settle
InitFeedback ==
    /\ NoCell
    /\ disk \in {ExampleDisk, ThresholdDisk}
    /\ NoPost
    /\ Mounted(TRUE)

NextFeedback ==
    \/ Upload \/ Onload \/ ChooseStart \/ PerformAnalysis
    \/ StartFeedback \/ FeedbackArrives \/ ErrorArrives \/ Rejects \/ CloseFeedbackModal

SpecFeedback == InitFeedback /\ [][NextFeedback]_vars

\* the HTTP call of a request in flight resolves or rejects
CallSettles == FeedbackArrives \/ ErrorArrives \/ Rejects

\* the same screen, every HTTP call in flight resolving or rejecting in the end
SpecFeedbackFair == SpecFeedback /\ WF_vars(CallSettles)

\* the values of process.env.GEMINI_API_KEY: undefined, empty, set
ApiKeys == {<<>>, <<"">>, <<"k">>}

\* the bodies of the requests to the route
RequestBodies ==
    {[kind |-> "invalid", lowGradeTopics |-> [kind |-> "undefined", value |-> <<>>]],
     [kind |-> "null", lowGradeTopics |-> [kind |-> "undefined", value |-> <<>>]]}
    \cup {[kind |-> "object", lowGradeTopics |-> t] :
              t \in {[kind |-> "undefined", value |-> <<>>],
                     [kind |-> "array", value |-> <<>>],
                     [kind |-> "array", value |-> <<"T1">>],
                     [kind |-> "text", value |-> <<>>],
                     [kind |-> "text", value |-> <<"T", "1">>]}}

\* the parts of a candidate: null, an object without text, an object with a text
Parts == {<<>>, <<[text |-> <<>>]>>, <<[text |-> <<"Sigue asi.">>]>>}

\* the content of a candidate: absent, without parts, or with a list of parts
Contents ==
    {<<>>, <<[parts |-> <<>>]>>, <<[parts |-> << <<>> >>]>>}
    \cup {<<[parts |-> << <<part>> >>]>> : part \in Parts}
    \cup {<<[parts |-> << <<part, other>> >>]>> : part \in Parts, other \in Parts}

\* the candidates of an answer: null, or an object with a content
Candidates == {<<>>} \cup {<<[content |-> content]>> : content \in Contents}

\* the parsed answers of the remote API: null, or an object without candidates, with
\* an empty list, or with a list of one or two candidates
Results ==
    {<<>>, <<[candidates |-> <<>>]>>, <<[candidates |-> << <<>> >>]>>}
    \cup {<<[candidates |-> << <<candidate>> >>]>> : candidate \in Candidates}
    \cup {<<[candidates |-> << <<candidate, <<>> >> >>]>> : candidate \in Candidates}

\* what the outbound call meets: a rejected fetch, a body that is not JSON, an answer
Remotes ==
    {[kind |-> "rejects", result |-> <<>>], [kind |-> "notJson", result |-> <<>>]}
    \cup {[kind |-> "json", result |-> result] : result \in Results}

\* one request handed to the route
InitRoute ==
    /\ NoCell
    /\ disk = << >>
    /\ \E apiKey \in ApiKeys, body \in RequestBodies, remote \in Remotes :
          postRequest = <<[apiKey |-> apiKey, body |-> body, remote |-> remote]>>
    /\ postResponse = <<>>
    /\ Mounted(TRUE)

SpecRoute == InitRoute /\ [][Post]_vars

-----------------------------------------------------------------------------
(* Claims about the grade converters (SpecNorm) *)

\* the three letter codes in every letter case
LetterL == {<<"L">>, <<"l">>}

LetterML == {<<"M", "L">>, <<"M", "l">>, <<"m", "L">>, <<"m", "l">>}

LetterNL == {<<"N", "L">>, <<"N", "l">>, <<"n", "L">>, <<"n", "l">>}

\* C1: the main converter gives 9 for L, 6 for ML and 3 for NL in any letter case;
\* otherwise a text that parses as a number v gives v/100*10 when v > 10 and v when
\* v <= 10; any other text gives none. So '85' gives 8.5, '7' gives 7, 'abc' and ''
\* give none.
C1_NormalizeContract ==
    converted # <<>> =>
        LET out == converted[1].main
            v == parseFloat(gradeCell)
            letter == gradeCell \in LetterL \cup LetterML \cup LetterNL
        IN  /\ gradeCell \in LetterL => out = Num(9 * Scale)
            /\ gradeCell \in LetterML => out = Num(6 * Scale)
            /\ gradeCell \in LetterNL => out = Num(3 * Scale)
            /\ ~letter /\ v.isNum /\ v.num > 10 * Scale => out = Num((v.num \div 100) * 10)
            /\ ~letter /\ v.isNum /\ v.num <= 10 * Scale => out = v
            /\ ~letter /\ ~v.isNum => out = None
            /\ gradeCell = <<"8", "5">> => out = Num(8 * Scale + Scale \div 2)
            /\ gradeCell = <<"7">> => out = Num(7 * Scale)
            /\ gradeCell = <<"a", "b", "c">> => out = None
            /\ gradeCell = <<>> => out = None

\* C1's case: the percentage '85' has been converted to 8.5
C1_Witness ==
    /\ gradeCell = <<"8", "5">>
    /\ converted = <<[main |-> Num(8 * Scale + Scale \div 2),
                      quantitative |-> Num(7 * Scale + (65 * Scale) \div 100),
                      pending |-> Num(8 * Scale + Scale \div 2),
                      progress |-> Num(8 * Scale + Scale \div 2)]>>

\* C2: every value the main converter returns is none or a number of [1, 9]
C2_GradeWithinScale ==
    converted # <<>> =>
        \/ ~converted[1].main.isNum
        \/ (Scale <= converted[1].main.num /\ converted[1].main.num <= 9 * Scale)

\* C3: the converters of the main analysis, of QuantitativeAnalysisSection, of
\* StudentPendingActivities and of StudentProgressChart agree on every raw cell
C3_OneSourceOfTruth ==
    converted # <<>> =>
        /\ converted[1].quantitative = converted[1].main
        /\ converted[1].pending = converted[1].main
        /\ converted[1].progress = converted[1].main

-----------------------------------------------------------------------------
(* Claims about ingestion (SpecIngest) *)

\* the sheet effect has just ingested the selected sheet
Ingested == lastOp.effect = "parsed"

\* the grid of the selected sheet
SelectedGrid == sheetToJson(uploadedWorkbooks[selectedFileName], selectedSheetName)

\* a trimmed cell is interpretable
Interpretable(cell) == convertGradeToNumeric(cell).isNum \/ isQualitativeGrade(cell)

\* some row of index >= 2 holds an interpretable cell in column j
ColumnHasGrade(grid, j) ==
    \E i \in 3..Len(grid) : Interpretable(trim(CellAt(grid[i], j)))

\* the date label of column j
LabelOf(grid, j) == trim(CellAt(grid[1], j))

\* the columns of index >= 1
DateColumns(grid) == 1..(Len(grid[1]) - 1)

\* the last column that carries the date label
LastColumnOf(grid, label) ==
    CHOOSE j \in DateColumns(grid) :
        /\ LabelOf(grid, j) = label
        /\ \A k \in DateColumns(grid) : LabelOf(grid, k) = label => k <= j

\* the rows of index >= 2 whose first cell is not empty once trimmed, in row order
NamedRows(grid) ==
    SelectSeq([i \in 1..(Len(grid) - 2) |-> i + 2],
              LAMBDA i : trim(CellAt(grid[i], 0)) # <<>>)

\* C4: the flag ingestion uses for column j is true iff some row of index >= 2 holds an
\* interpretable trimmed cell in column j
C4_FlagIffSomeGrade ==
    Ingested =>
        \A j \in DateColumns(SelectedGrid) :
            validActivityColumns(SelectedGrid)[LabelOf(SelectedGrid, j)]
                = ColumnHasGrade(SelectedGrid, j)

C7_OneRecordPerNamedRow ==
    Ingested =>
        LET named == NamedRows(SelectedGrid)
        IN  /\ Len(sheetData) = Len(named)
            /\ \A k \in 1..Len(named) :
                  sheetData[k].studentName = trim(CellAt(SelectedGrid[named[k]], 0))

\* C7's case: a row with a blank name is dropped, the next row's name is trimmed
C7_Witness ==
    /\ Ingested
    /\ Len(SelectedGrid) = 4
    /\ CellAt(SelectedGrid[3], 0) = T_Blank
    /\ CellAt(SelectedGrid[4], 0) = T_AnaPadded
    /\ Len(sheetData) = 1
    /\ sheetData[1].studentName = T_Ana

-----------------------------------------------------------------------------
(* Claims about the screen (Spec) *)

\* the sheet effect has just run processXLSXSheetData on the selected sheet
Processed == lastOp.effect \in {"parsed", "threw"}

\* C6: ingesting a grid of fewer than 3 rows fails; afterwards the records and the
\* date axis are empty, the snapshot is null and an error message is set
C6_ShortGridFails ==
    (Processed /\ Len(SelectedGrid) < 3) =>
        /\ lastOp.effect = "threw"
        /\ sheetData = <<>>
        /\ allDates = <<>>
        /\ analysisResults = <<>>
        /\ error # <<>>

\* C6's case: a sheet of two rows is selected while records, a range and a snapshot
\* of another sheet are held
C6_Witness ==
    /\ Processed
    /\ Len(SelectedGrid) = 2
    /\ lastOp.op = "sheet-select"
    /\ lastOp.hadResults
    /\ startDate # <<>>
    /\ sheetData = <<>>
    /\ analysisResults = <<>>
    /\ error = <<"Error al procesar los datos de la hoja.">>

\* a date label is on the date axis
OnAxis(label) == \E k \in 1..Len(allDates) : allDates[k] = label

\* the first position (1-based) of a label on the date axis
PositionOf(label) ==
    CHOOSE k \in 1..Len(allDates) :
        allDates[k] = label /\ \A m \in 1..(k - 1) : allDates[m] # label

\* the range of the two date selects is not a range of the date axis
RangeInvalid ==
    \/ ~OnAxis(startDate)
    \/ ~OnAxis(endDate)
    \/ PositionOf(startDate) > PositionOf(endDate)

\* C8: performAnalysis on a start or end date missing from the date axis, or on a
\* start after the end, leaves a null snapshot and the range error message
C8_RangeErrorDiscardsSnapshot ==
    (lastOp.op = "performAnalysis" /\ RangeInvalid) =>
        /\ analysisResults = <<>>
        /\ Len(error) = 1
        /\ error # <<"Por favor, carga un archivo, selecciona una hoja y un rango de fechas.">>

\* C8's case: a snapshot is held, the start is moved after the end, and the analysis
\* is asked again
C8_Witness ==
    /\ lastOp.op = "performAnalysis"
    /\ lastOp.hadResults
    /\ OnAxis(startDate) /\ OnAxis(endDate)
    /\ PositionOf(startDate) > PositionOf(endDate)
    /\ analysisResults = <<>>
    /\ error # <<>>

-----------------------------------------------------------------------------
(* Claims about the selected dates (SpecRange) *)

\* performAnalysis has just stored a snapshot
Analysed == lastOp.op = "performAnalysis" /\ analysisResults # <<>>

\* some student record has a grades entry for the date
HasEntry(date) ==
    \E i \in 1..Len(sheetData) : \E n \in 1..Len(sheetData[i].grades) :
        sheetData[i].grades[n].key = date

\* the dates of the group series of the snapshot: the dates the analysis ran over
AnalysedDates ==
    [k \in 1..Len(analysisResults[1].groupPerformanceData) |->
        analysisResults[1].groupPerformanceData[k].date]

\* the dates at the positions index(start)..index(end) of the axis that some record
\* has an entry for, in axis order
SelectedDates ==
    SelectSeq(SubSeq(allDates, PositionOf(startDate), PositionOf(endDate)), HasEntry)

\* C9, first part: the analysis runs over the dates at positions index(start)..index(end)
\* of the axis, in axis order, restricted to the dates some record has an entry for
C9_InclusiveSlice == Analysed => AnalysedDates = SelectedDates

\* C9, second part: from the first date of the axis to the last date of the axis the
\* analysis runs over every date of the axis that some record has an entry for
C9_FirstToLastIsWholeAxis ==
    (Analysed /\ startDate = allDates[1] /\ endDate = allDates[Len(allDates)]) =>
        \A k \in 1..Len(allDates) :
            HasEntry(allDates[k]) =>
                \E n \in 1..Len(AnalysedDates) : AnalysedDates[n] = allDates[k]

-----------------------------------------------------------------------------
(* Claims about the averages (SpecAvg) *)

\* the normalized grade of the student's entry for the date
GradeOn(student, date) == convertGradeToNumeric(ObjGet(student.grades, date).grade)

\* the positions of the selected dates the student has an entry for
EntryPositions(student) ==
    {k \in 1..Len(SelectedDates) : ObjHas(student.grades, SelectedDates[k])}

\* those whose entry is uninterpretable
MissingPositions(student) ==
    {k \in EntryPositions(student) : ~GradeOn(student, SelectedDates[k]).isNum}

RECURSIVE InterpretableSum(_, _)
\* the sum of the normalized grades of the interpretable entries at the positions 1..k
InterpretableSum(student, k) ==
    IF k = 0 THEN 0
    ELSE InterpretableSum(student, k - 1)
         + (IF k \in EntryPositions(student) \ MissingPositions(student)
            THEN GradeOn(student, SelectedDates[k]).num ELSE 0)

\* the text of hundredths is the quotient n / d rounded to two decimals
IsRounded(hundredths, n, d) ==
    LET gap == 100 * n - hundredths * d
    IN  2 * (IF gap < 0 THEN 0 - gap ELSE gap) <= d

\* the record reported under the student's name is the student's own
ReportedLast(i) ==
    \A m \in (i + 1)..Len(sheetData) : sheetData[m].studentName # sheetData[i].studentName

\* C10: the reported average of a student is (the sum of the normalized grades of the
\* interpretable entries + 3 for each uninterpretable entry) over the number of selected
\* dates the student has an entry for, 0 when there is none; missingActivities is the
\* number of uninterpretable entries
C10_AverageWithFallback ==
    Analysed =>
        \A i \in 1..Len(sheetData) :
            ReportedLast(i) =>
                LET student == sheetData[i]
                    reported == ObjGet(analysisResults[1].studentAverages, student.studentName)
                    count == Cardinality(EntryPositions(student))
                    missing == Cardinality(MissingPositions(student))
                    sum == InterpretableSum(student, Len(SelectedDates)) + 3 * Scale * missing
                IN  /\ reported.missingActivities = missing
                    /\ IF count = 0 THEN reported.currentAverage = 0
                       ELSE IsRounded(reported.currentAverage, sum, count * Scale)

\* C10's case: the grades 9, none and 6 over three dates give the average 6.00 and one
\* missing activity
C10_Witness ==
    /\ Analysed
    /\ Len(SelectedDates) = 3
    /\ GradeOn(sheetData[1], SelectedDates[1]) = Num(9 * Scale)
    /\ GradeOn(sheetData[1], SelectedDates[2]) = None
    /\ GradeOn(sheetData[1], SelectedDates[3]) = Num(6 * Scale)
    /\ ObjGet(analysisResults[1].studentAverages, sheetData[1].studentName).currentAverage
          = 600
    /\ ObjGet(analysisResults[1].studentAverages, sheetData[1].studentName).missingActivities
          = 1

-----------------------------------------------------------------------------
(* Claims about repeated analyses (Spec) *)

-----------------------------------------------------------------------------
(* Claims about the snapshot (SpecSnapshot) *)

\* the snapshot held
Snapshot == analysisResults[1]

\* the number of selected dates the student has an entry for
ActivityCount(student) == Cardinality(EntryPositions(student))

\* the sum of the student's normalized grades, with 3 for each uninterpretable entry
ProjectionSum(student) ==
    InterpretableSum(student, Len(SelectedDates))
        + 3 * Scale * Cardinality(MissingPositions(student))

\* the student has an activity in the range and an average strictly below 5
BelowFive(student) ==
    /\ ActivityCount(student) > 0
    /\ ProjectionSum(student) < 5 * Scale * ActivityCount(student)

\* the records of the students below five, in record order
RiskRecords == SelectSeq(sheetData, BelowFive)

\* C11: the at-risk list holds, in record order, exactly the records whose activity
\* count in the selected range is positive and whose average is strictly below 5
C11_AtRiskIffBelowFive ==
    Analysed =>
        /\ Len(Snapshot.studentsAtRisk) = Len(RiskRecords)
        /\ \A k \in 1..Len(RiskRecords) :
              Snapshot.studentsAtRisk[k].name = RiskRecords[k].studentName

\* C11's case: of three students of averages 4.99, exactly 5 and 7, only the first is
\* at risk
C11_Witness ==
    /\ Analysed
    /\ Len(sheetData) = 3
    /\ ActivityCount(sheetData[1]) = 1
    /\ ProjectionSum(sheetData[1]) = Scale * 5 - Scale \div 100
    /\ ProjectionSum(sheetData[2]) = Scale * 5
    /\ Len(Snapshot.studentsAtRisk) = 1
    /\ Snapshot.studentsAtRisk[1].name = sheetData[1].studentName
    /\ Snapshot.studentsAtRisk[1].projectedAverage = 499

\* the selected dates on which the student's entry is uninterpretable, in order
PendingDates(student) ==
    SelectSeq(SelectedDates,
              LAMBDA date : ObjHas(student.grades, date) /\ ~GradeOn(student, date).isNum)

\* C12: the details of an at-risk entry are one text "topic (date)" for each selected
\* date where the student's entry is present and uninterpretable, in selected-date
\* order, and nothing else
C12_DetailsArePendingEntries ==
    Analysed =>
        \A k \in 1..Len(RiskRecords) :
            LET student == RiskRecords[k]
                pending == PendingDates(student)
                details == Snapshot.studentsAtRisk[k].details
            IN  /\ Len(details) = Len(pending)
                /\ \A n \in 1..Len(pending) :
                      details[n] = ObjGet(student.grades, pending[n]).topic
                                       \o <<" ", "(">> \o pending[n] \o <<")">>

\* C12's case: an at-risk student graded NL on one date and x on the next has the
\* second date only in the details
C12_Witness ==
    /\ Analysed
    /\ Len(Snapshot.studentsAtRisk) > 0
    /\ Len(SelectedDates) = 2
    /\ GradeOn(RiskRecords[1], SelectedDates[1]) = Num(3 * Scale)
    /\ GradeOn(RiskRecords[1], SelectedDates[2]) = None
    /\ Snapshot.studentsAtRisk[1].details
          = << <<"T", "1", " ", "(", "D", "2", ")">> >>

\* the records whose entry on the date is interpretable, each with the date
GradedOn(date) ==
    LET graded == SelectSeq(sheetData, LAMBDA student :
                      ObjHas(student.grades, date) /\ GradeOn(student, date).isNum)
    IN  [i \in 1..Len(graded) |-> [student |-> graded[i], date |-> date]]

RECURSIVE GradeTotal(_)
\* the sum of the normalized grades of the entries
GradeTotal(graded) ==
    IF graded = <<>> THEN 0
    ELSE GradeTotal(Tail(graded)) + GradeOn(Head(graded).student, Head(graded).date).num

\* the group series has one point per selected date, in order, null exactly when no
\* student has an interpretable grade on the date, and otherwise of a value that
\* Fits(value, sum, count) the interpretable grades of the date
GroupSeriesIs(Fits(_, _, _)) ==
    /\ Len(Snapshot.groupPerformanceData) = Len(SelectedDates)
    /\ \A k \in 1..Len(SelectedDates) :
          LET point == Snapshot.groupPerformanceData[k]
              graded == GradedOn(SelectedDates[k])
          IN  /\ point.date = SelectedDates[k]
              /\ point.averageGrade.isNum <=> graded # <<>>
              /\ graded # <<>> =>
                    Fits(point.averageGrade.num, GradeTotal(graded), Len(graded))

\* C15 as stated: the group series has exactly one point per selected date, in
\* selected-date order, whose value is the average of the normalized grades of the
\* interpretable entries of the date, and null exactly when there is none
C15_GroupAverageExact ==
    Analysed => GroupSeriesIs(LAMBDA value, sum, count : value * count = sum)

\* C15, amended: the value of a point is the average of the normalized grades of the
\* interpretable entries of the date rounded to two decimals; uninterpretable entries
\* count neither in the sum nor in the count
C15_GroupAverageRounded ==
    Analysed =>
        GroupSeriesIs(LAMBDA value, sum, count :
                          /\ value % (Scale \div 100) = 0
                          /\ IsRounded(value \div (Scale \div 100), sum, count * Scale))

\* C15's case: 4.99, 5 and 7 give the point 5.66 on the first date; x, x and 7 give the
\* point 7 on the second
C15_Witness ==
    /\ Analysed
    /\ Len(sheetData) = 3
    /\ Len(SelectedDates) = 2
    /\ GradeTotal(GradedOn(SelectedDates[1])) = 17 * Scale - Scale \div 100
    /\ Len(GradedOn(SelectedDates[2])) = 1
    /\ \A i \in 1..3 : ObjHas(sheetData[i].grades, SelectedDates[2])
    /\ Snapshot.groupPerformanceData[1].averageGrade = Num(566 * (Scale \div 100))
    /\ Snapshot.groupPerformanceData[2].averageGrade = Num(7 * Scale)

\* the entries the analysis passes, in the order of the pass: record by record and,
\* within a record, selected date by selected date
Visits ==
    LET cols == Len(SelectedDates)
        all == [p \in 1..(Len(sheetData) * cols) |->
                   [student |-> sheetData[((p - 1) \div cols) + 1],
                    date |-> SelectedDates[((p - 1) % cols) + 1]]]
    IN  SelectSeq(all, LAMBDA v : ObjHas(v.student.grades, v.date))

\* the topic and the raw grade of a visited entry
EntryOf(v) == ObjGet(v.student.grades, v.date)

\* the number of visited entries whose raw grade is one of the letters (SpecCategory)
CountOf(letters) ==
    Cardinality({p \in 1..Len(Visits) : EntryOf(Visits[p]).grade \in letters})

\* C16: every snapshot holds exactly three category buckets in the order Achieved (L),
\* Partially Achieved (ML), Not Achieved (NL); the value of each is the number of
\* (record, selected date) entries whose raw grade is that letter code in any letter
\* case, so numeric and uninterpretable entries change no bucket
C16_ThreeBucketsCountLetters ==
    analysisResults # <<>> =>
        /\ Len(Snapshot.gradeCategoryCounts) = 3
        /\ Snapshot.gradeCategoryCounts[1].name = "Logrado (L)"
        /\ Snapshot.gradeCategoryCounts[2].name = "Medianamente Logrado (ML)"
        /\ Snapshot.gradeCategoryCounts[3].name = "No Logrado (NL)"
        /\ Analysed =>
              /\ Snapshot.gradeCategoryCounts[1].value = CountOf(LetterL)
              /\ Snapshot.gradeCategoryCounts[2].value = CountOf(LetterML)
              /\ Snapshot.gradeCategoryCounts[3].value = CountOf(LetterNL)

\* C16's case: the six entries L, ml, l, 7, nl and x give the buckets 2, 1 and 1
C16_Witness ==
    /\ Analysed
    /\ Len(Visits) = 6
    /\ \E p \in 1..6 : GradeOn(Visits[p].student, Visits[p].date) = Num(7 * Scale)
                          /\ EntryOf(Visits[p]).grade = T_7
    /\ \E p \in 1..6 : ~GradeOn(Visits[p].student, Visits[p].date).isNum
    /\ CountOf(LetterL) = 2
    /\ Snapshot.gradeCategoryCounts[1].value = 2
    /\ Snapshot.gradeCategoryCounts[2].value = 1
    /\ Snapshot.gradeCategoryCounts[3].value = 1

-----------------------------------------------------------------------------
(* Claims about the best student and the rankings (SpecRank) *)

\* the numerator and the denominator of the student's average
AverageOf(student) ==
    IF ActivityCount(student) > 0
    THEN [n |-> ProjectionSum(student), d |-> ActivityCount(student)]
    ELSE [n |-> 0, d |-> 1]

\* the average of the first student is at most the average of the second
AverageAtMost(a, b) == AverageOf(a).n * AverageOf(b).d <= AverageOf(b).n * AverageOf(a).d

\* the i-th record is the first, in record order, whose average is the maximum
FirstOfMaximum(i) ==
    /\ \A j \in 1..Len(sheetData) : AverageAtMost(sheetData[j], sheetData[i])
    /\ \A j \in 1..(i - 1) : ~AverageAtMost(sheetData[i], sheetData[j])

\* the time series of a record: one point for each selected date it has an entry for
SeriesOf(student) ==
    LET dated == SelectSeq(SelectedDates, LAMBDA date : ObjHas(student.grades, date))
    IN  [k \in 1..Len(dated) |->
            [date |-> dated[k],
             grade |-> IF GradeOn(student, dated[k]).isNum
                       THEN Num(fixedToNumber(toFixed2(GradeOn(student, dated[k]).num, 1)))
                       ELSE None]]

\* the best student of the snapshot is the first record of maximum average, with its series
BestIsFirstOfMaximum ==
    \E i \in 1..Len(sheetData) :
        /\ FirstOfMaximum(i)
        /\ Snapshot.bestStudentName = sheetData[i].studentName
        /\ Snapshot.bestStudentPerformanceData = SeriesOf(sheetData[i])

\* C13: after an analysis over a non-empty list of records, bestStudentName is the first
\* record, in record order, whose average is the maximum over all records, and the
\* best-student series is that record's time series
C13_BestIsFirstOfMaximum == (Analysed /\ sheetData # <<>>) => BestIsFirstOfMaximum

\* C13 holds of the analyses in which some record's average is above -1
C13_BestIsFirstAboveSentinel ==
    (Analysed /\ \E i \in 1..Len(sheetData) :
                    AverageOf(sheetData[i]).n > (0 - Scale) * AverageOf(sheetData[i]).d)
        => BestIsFirstOfMaximum

\* the topics in the order the pass first meets them
DiscoveredTopics == distinctInOrder([p \in 1..Len(Visits) |-> EntryOf(Visits[p]).topic])

\* the visited entries of the topic whose grade is interpretable
GradedVisits(topic) ==
    SelectSeq(Visits, LAMBDA v : EntryOf(v).topic = topic /\ GradeOn(v.student, v.date).isNum)

RECURSIVE VisitSum(_)
\* the sum of the normalized grades of the visits
VisitSum(visits) ==
    IF visits = <<>> THEN 0
    ELSE VisitSum(Tail(visits)) + GradeOn(Head(visits).student, Head(visits).date).num

\* the average of a topic: sum / count of its interpretable grades, 0 when count is 0
TopicAverage(topic) ==
    IF GradedVisits(topic) = <<>> THEN [n |-> 0, d |-> 1]
    ELSE [n |-> VisitSum(GradedVisits(topic)), d |-> Len(GradedVisits(topic))]

\* the place of the m-th discovered topic among the topics sorted by average, the topics
\* of equal average in discovery order
PlaceOf(m, ascending) ==
    LET avg(k) == TopicAverage(DiscoveredTopics[k])
        less(a, b) == IF ascending THEN avg(a).n * avg(b).d < avg(b).n * avg(a).d
                                   ELSE avg(a).n * avg(b).d > avg(b).n * avg(a).d
        same(a, b) == avg(a).n * avg(b).d = avg(b).n * avg(a).d
    IN  1 + Cardinality({k \in 1..Len(DiscoveredTopics) :
                            less(k, m) \/ (same(k, m) /\ k < m)})

\* the student details of a topic: its interpretable entries below 6 (low) or of 8 and
\* more (high), in the order of the pass
DetailsOf(topic, low) ==
    LET chosen == SelectSeq(GradedVisits(topic),
                            LAMBDA v : IF low THEN GradeOn(v.student, v.date).num < 6 * Scale
                                              ELSE GradeOn(v.student, v.date).num >= 8 * Scale)
    IN  [k \in 1..Len(chosen) |->
            [studentName |-> chosen[k].student.studentName, grade |-> EntryOf(chosen[k]).grade]]

\* the ranking is the first at most five topics sorted by average, each with its details
IsRanking(ranking, ascending) ==
    /\ Len(ranking) = (IF Len(DiscoveredTopics) < 5 THEN Len(DiscoveredTopics) ELSE 5)
    /\ \A m \in 1..Len(DiscoveredTopics) :
          PlaceOf(m, ascending) <= 5 =>
              LET ranked == ranking[PlaceOf(m, ascending)]
                  avg == TopicAverage(DiscoveredTopics[m])
              IN  /\ ranked.topic = DiscoveredTopics[m]
                  /\ IsRounded(ranked.average, avg.n, avg.d * Scale)
                  /\ ranked.students = DetailsOf(DiscoveredTopics[m], ascending)

\* C14: the lowest ranking is the first at most 5 topics sorted by ascending average and
\* the highest ranking the first at most 5 sorted by descending average, the average of
\* a topic being sum / count of its interpretable grades (0 when count is 0); topics of
\* equal average keep their discovery order, and each ranked topic carries its low
\* (respectively high) student details
C14_RankingsKeepDiscoveryOrder ==
    Analysed =>
        /\ IsRanking(Snapshot.activitiesWithLowerGrades, TRUE)
        /\ IsRanking(Snapshot.activitiesWithHigherGrades, FALSE)

\* C14 holds of the analyses in which no topic is named by an integer
C14_RankingsOfNamedTopics ==
    (Analysed /\ \A m \in 1..Len(DiscoveredTopics) : ~IsIntegerKey(DiscoveredTopics[m]))
        => /\ IsRanking(Snapshot.activitiesWithLowerGrades, TRUE)
           /\ IsRanking(Snapshot.activitiesWithHigherGrades, FALSE)

-----------------------------------------------------------------------------
(* Claims about the analysis of no records (SpecInvoke) *)

\* performAnalysis has just run on zero student records
InvokedOnNoRecords == lastOp.op = "performAnalysis" /\ sheetData = <<>>

\* C18: invoking the analysis with zero student records is not an error: it yields a
\* snapshot whose averages, rankings, at-risk list and series are empty, whose category
\* buckets are all 0 and whose best student is empty
C18_NoRecordsGiveEmptySnapshot ==
    InvokedOnNoRecords =>
        /\ error = <<>>
        /\ analysisResults # <<>>
        /\ Snapshot.studentAverages = <<>>
        /\ Snapshot.activitiesWithLowerGrades = <<>>
        /\ Snapshot.activitiesWithHigherGrades = <<>>
        /\ Snapshot.studentsAtRisk = <<>>
        /\ Snapshot.bestStudentPerformanceData = <<>>
        /\ Snapshot.groupPerformanceData = <<>>
        /\ \A b \in 1..3 : Snapshot.gradeCategoryCounts[b].value = 0
        /\ Snapshot.bestStudentName = <<>>

\* what the code does on zero records: the message of a missing input, and no snapshot
C18_NoRecordsAreRejected ==
    InvokedOnNoRecords =>
        /\ error = <<"Por favor, carga un archivo, selecciona una hoja y un rango de fechas.">>
        /\ analysisResults = <<>>

\* performAnalysis has run on zero records while the screen held a date axis and a range
C18_Reached ==
    /\ InvokedOnNoRecords
    /\ allDates # <<>>
    /\ startDate # <<>>
    /\ endDate # <<>>

-----------------------------------------------------------------------------
(* Claims about the feedback requests (SpecFeedback) *)

\* C19: at most one feedback request is in flight at any time, and while one is in
\* flight isGeneratingFeedback is true (so that no second one can be started), under
\* every interleaving of clicks, modal closing, analyses and answers
C19_OneRequestInFlight ==
    /\ Len(requests) <= 1
    /\ requests # <<>> => isGeneratingFeedback

\* C19's case: a request is in flight after the modal was closed and the analysis was
\* run again
C19_Witness ==
    /\ Len(requests) = 1
    /\ isGeneratingFeedback
    /\ ~showFeedbackModal
    /\ lastOp.op = "performAnalysis"
    /\ analysisResults # <<>>

\* the names of the steps of generateFeedback
FeedbackOps == {"generateFeedback", "response.ok", "response.error", "catch"}

\* C20: starting a feedback request and any outcome of it (success, non-success
\* response, network error, unexpected payload) leave the snapshot, the records, the
\* date axis and the selected range unchanged, as well as the rest of the state of the
\* screen but the feedback text, the feedback student name, the generating flag and
\* the modal flag
C20_FeedbackLeavesAnalysisAlone ==
    [][lastOp'.op \in FeedbackOps =>
          UNCHANGED <<analysisResults, sheetData, allDates, startDate, endDate, error,
                      uploadedWorkbooks, selectedFileName, selectedSheetName,
                      xlsxLoaded>>]_vars

\* C20's case: a request was refused by the route while a snapshot was held, and the
\* snapshot is still held
C20_Witness ==
    /\ lastOp.op = "response.error"
    /\ lastOp.hadResults
    /\ analysisResults # <<>>
    /\ sheetData # <<>>
    /\ ~isGeneratingFeedback
    /\ llmFeedback # <<>> /\ Len(llmFeedback[1]) = 3

-----------------------------------------------------------------------------
(* Claims about the feedback route (SpecRoute) *)

\* the route has answered
Answered == postResponse # <<>>

\* the first part of the first candidate of the answer of the remote API, when the
\* answer has one that is an object: <<>> or <<the part>>
FirstPartOf(remote) ==
    IF /\ remote.kind = "json"
       /\ remote.result # <<>>
       /\ remote.result[1].candidates # <<>> /\ remote.result[1].candidates[1] # <<>>
       /\ remote.result[1].candidates[1][1] # <<>>
       /\ remote.result[1].candidates[1][1][1].content # <<>>
       /\ remote.result[1].candidates[1][1][1].content[1].parts # <<>>
       /\ remote.result[1].candidates[1][1][1].content[1].parts[1] # <<>>
    THEN remote.result[1].candidates[1][1][1].content[1].parts[1][1]
    ELSE <<>>

\* the answer has a candidate text part
HasCandidateText(remote) ==
    FirstPartOf(remote) # <<>> /\ FirstPartOf(remote)[1].text # <<>>

\* the response is an error of status 500
IsError500(response) ==
    response.status = 500 /\ response.body.error # <<>> /\ response.body.feedback = <<>>

\* the response is a feedback text of status 200
IsFeedback200(response) ==
    response.status = 200 /\ response.body.feedback # <<>> /\ response.body.error = <<>>

\* the response to the request is the one C21 describes
RouteContract(req, response) ==
    /\ IsFeedback200(response) \/ IsError500(response)
    /\ (req.apiKey = <<>> \/ req.apiKey = <<"">>) =>
          IsError500(response) /\ response.outbound = 0
    /\ (req.body.kind \in {"invalid", "null"} \/ ~HasCandidateText(req.remote)) =>
          IsError500(response)

\* C21: every POST to the feedback route returns either status 200 with a body
\* {feedback: text} or a non-success status with a body {error: text}: a missing API
\* key gives 500 with an error before any outbound request; a body that cannot be
\* parsed, a failed outbound call or a remote answer without a candidate text part
\* gives 500 with an error
C21_RouteAnswersFeedbackOrError ==
    Answered => RouteContract(postRequest[1], postResponse[1])

\* C21 holds of the requests whose remote answer has no first part without a text
C21_RouteContractUnlessPartWithoutText ==
    (Answered /\ (FirstPartOf(postRequest[1].remote) # <<>> =>
                      FirstPartOf(postRequest[1].remote)[1].text # <<>>))
        => RouteContract(postRequest[1], postResponse[1])

\* the route has answered 200 with a body that has neither feedback nor error
C21_EmptyBodyAnswered ==
    /\ Answered
    /\ postResponse[1].status = 200
    /\ postResponse[1].body.feedback = <<>>
    /\ postResponse[1].body.error = <<>>

-----------------------------------------------------------------------------
(* Claims about students of the same name (SpecRecords) *)

\* the topics of the student's entries on the selected dates whose normalized grade is
\* below 6, each once, in the order of the student's entries
LowTopicsOf(student) ==
    LET low == SelectSeq(entries(student.grades),
                   LAMBDA e : /\ \E k \in 1..Len(SelectedDates) : SelectedDates[k] = e.key
                              /\ GradeOn(student, e.key).isNum
                              /\ GradeOn(student, e.key).num < 6 * Scale)
    IN  distinctInOrder([n \in 1..Len(low) |-> low[n].val.topic])

\* the entry of the averages mapping is the one computed from the record
ReportedFrom(reported, student) ==
    /\ reported.missingActivities = Cardinality(MissingPositions(student))
    /\ IsRounded(reported.currentAverage, AverageOf(student).n, AverageOf(student).d * Scale)
    /\ reported.lowGradeTopics = LowTopicsOf(student)

\* C22: ingestion keeps two rows of the same name as two records, and after an analysis
\* the averages mapping has exactly one entry per distinct student name, holding the
\* average, the missing count and the low-grade topics computed from the last record,
\* in row order, that carries the name
C22_AveragesByNameLastWins ==
    Analysed =>
        /\ \A m, n \in 1..Len(Snapshot.studentAverages) :
              Snapshot.studentAverages[m].key = Snapshot.studentAverages[n].key => m = n
        /\ \A n \in 1..Len(Snapshot.studentAverages) :
              \E i \in 1..Len(sheetData) :
                  sheetData[i].studentName = Snapshot.studentAverages[n].key
        /\ \A i \in 1..Len(sheetData) :
              /\ ObjHas(Snapshot.studentAverages, sheetData[i].studentName)
              /\ ReportedLast(i) =>
                    ReportedFrom(ObjGet(Snapshot.studentAverages, sheetData[i].studentName),
                                 sheetData[i])

\* C22's case: two records of the same name, of different averages, missing counts and
\* low-grade topics, and one entry in the averages mapping, computed from the second
C22_Witness ==
    /\ Analysed
    /\ Len(sheetData) = 2
    /\ sheetData[1].studentName = sheetData[2].studentName
    /\ Len(Snapshot.studentAverages) = 1
    /\ Cardinality(MissingPositions(sheetData[1])) = 1
    /\ Cardinality(MissingPositions(sheetData[2])) = 0
    /\ LowTopicsOf(sheetData[1]) # LowTopicsOf(sheetData[2])
    /\ Snapshot.studentAverages[1].val.missingActivities = 0
    /\ Snapshot.studentAverages[1].val.lowGradeTopics = LowTopicsOf(sheetData[2])
    /\ ~ReportedFrom(Snapshot.studentAverages[1].val, sheetData[1])

-----------------------------------------------------------------------------
(* Claims about the student details of the topics (SpecCategory) *)

\* the topics of a ranking
RankedTopics(ranking) == {ranking[k].topic : k \in 1..Len(ranking)}

\* C23: the low detail list of every topic holds one (studentName, raw grade) item for
\* each entry of the topic on the selected dates whose normalized grade is not none
\* and below 6, the high detail list one for each whose normalized grade is 8 or more,
\* in processing order (records in row order, dates in selected order);
\* uninterpretable entries are in neither list. The lists are read off the two
\* rankings, which hold every topic while there are at most five
C23_DetailListsOfTopics ==
    Analysed =>
        /\ Len(DiscoveredTopics) <= 5 =>
              /\ RankedTopics(Snapshot.activitiesWithLowerGrades)
                    = {DiscoveredTopics[m] : m \in 1..Len(DiscoveredTopics)}
              /\ RankedTopics(Snapshot.activitiesWithHigherGrades)
                    = {DiscoveredTopics[m] : m \in 1..Len(DiscoveredTopics)}
        /\ \A k \in 1..Len(Snapshot.activitiesWithLowerGrades) :
              Snapshot.activitiesWithLowerGrades[k].students
                  = DetailsOf(Snapshot.activitiesWithLowerGrades[k].topic, TRUE)
        /\ \A k \in 1..Len(Snapshot.activitiesWithHigherGrades) :
              Snapshot.activitiesWithHigherGrades[k].students
                  = DetailsOf(Snapshot.activitiesWithHigherGrades[k].topic, FALSE)

\* C23's case: L, l and nl on the first topic give the high list (Ana, L), (Beto, l)
\* and the low list (Caro, nl); ml, 7 and x on the second give two empty lists, the x
\* counting as 3 in the average of its student
C23_Witness ==
    /\ Analysed
    /\ Len(Visits) = 6
    /\ \E k \in 1..2 :
          /\ Snapshot.activitiesWithLowerGrades[k].topic = T_T1
          /\ Snapshot.activitiesWithLowerGrades[k].students
                = <<[studentName |-> T_Caro, grade |-> T_nl]>>
    /\ \E k \in 1..2 :
          /\ Snapshot.activitiesWithHigherGrades[k].topic = T_T1
          /\ Snapshot.activitiesWithHigherGrades[k].students
                = <<[studentName |-> T_Ana, grade |-> T_L],
                    [studentName |-> T_Beto, grade |-> <<"l">>]>>
    /\ \E k \in 1..2 :
          /\ Snapshot.activitiesWithLowerGrades[k].topic = T_T2
          /\ Snapshot.activitiesWithLowerGrades[k].students = <<>>
    /\ \E k \in 1..2 :
          /\ Snapshot.activitiesWithHigherGrades[k].topic = T_T2
          /\ Snapshot.activitiesWithHigherGrades[k].students = <<>>
    /\ ~GradeOn(sheetData[3], SelectedDates[2]).isNum
    /\ ObjGet(Snapshot.studentAverages, T_Caro).currentAverage = 300

-----------------------------------------------------------------------------
(* Claims about the snapshot and the selection it was computed from (Spec) *)

\* C24: a snapshot that is held is the one performAnalysis computes from the records
\* held and the start and end dates selected now
C24_SnapshotIsOfCurrentSelection ==
    analysisResults # <<>> =>
        analysisResults = performAnalysis(sheetData, allDates, startDate, endDate).analysisResults

\* C24, the part the sheet effect does keep: whenever the effect has run past its
\* library test (a change of file or of sheet does that) no snapshot is held
C24_SheetEffectClearsSnapshot ==
    lastOp.effect \in {"parsed", "threw", "cleared"} => analysisResults = <<>>

\* C24's failing case: a snapshot still held after a date select has changed
C24_StaleSnapshotReached ==
    /\ lastOp.op \in {"start-date", "end-date"}
    /\ analysisResults # <<>>
    /\ analysisResults # performAnalysis(sheetData, allDates, startDate, endDate).analysisResults

-----------------------------------------------------------------------------
(* Claims about the entries of the at-risk list (SpecRecords) *)

\* C25: the projected average of every entry of the at-risk list, read from its
\* two-decimal text, is below 5
C25_AtRiskReadsBelowFive ==
    Analysed =>
        \A k \in 1..Len(Snapshot.studentsAtRisk) :
            Snapshot.studentsAtRisk[k].projectedAverage < 500

\* C25's failing case: a student listed at risk whose average reads 5.00
C25_AtRiskAtFiveReached ==
    /\ Analysed
    /\ \E k \in 1..Len(Snapshot.studentsAtRisk) :
          /\ Snapshot.studentsAtRisk[k].name = T_Ana
          /\ Snapshot.studentsAtRisk[k].projectedAverage = 500

\* the at-risk entry agrees with the entry of the averages mapping under its name
MatchesAverages(risk) ==
    /\ ObjHas(Snapshot.studentAverages, risk.name)
    /\ ObjGet(Snapshot.studentAverages, risk.name).currentAverage = risk.projectedAverage
    /\ ObjGet(Snapshot.studentAverages, risk.name).missingActivities = risk.missing

\* C26: every entry of the at-risk list has an entry of the averages mapping under its
\* name with the same average and the same count of missing activities, and lists as
\* many details as it counts missing activities
C26_AtRiskMatchesAverages ==
    Analysed =>
        \A k \in 1..Len(Snapshot.studentsAtRisk) :
            /\ MatchesAverages(Snapshot.studentsAtRisk[k])
            /\ Len(Snapshot.studentsAtRisk[k].details) = Snapshot.studentsAtRisk[k].missing

\* C26, the part that holds: the details of an at-risk entry are as many as its
\* missing activities
C26_DetailsCountMissing ==
    Analysed =>
        \A k \in 1..Len(Snapshot.studentsAtRisk) :
            Len(Snapshot.studentsAtRisk[k].details) = Snapshot.studentsAtRisk[k].missing

\* C26's failing case: an at-risk entry whose name holds the average of a later row
C26_NamesakeAtRiskReached ==
    /\ Analysed
    /\ \E k \in 1..Len(Snapshot.studentsAtRisk) :
          /\ ObjHas(Snapshot.studentAverages, Snapshot.studentsAtRisk[k].name)
          /\ ObjGet(Snapshot.studentAverages, Snapshot.studentsAtRisk[k].name).currentAverage
                >= 500
          /\ Snapshot.studentsAtRisk[k].projectedAverage < 500

-----------------------------------------------------------------------------
(* Claims about the grade keys of the records (SpecKeys) *)

\* the date labels of the grid that ingestion flags active
ActiveLabels(grid) ==
    {LabelOf(grid, j) : j \in {c \in DateColumns(grid) :
                                  validActivityColumns(grid)[LabelOf(grid, c)]}}

\* the dates of the grades entries of a record
GradeKeys(student) == {student.grades[n].key : n \in 1..Len(student.grades)}

\* the dates at the positions index(start)..index(end) of the axis flagged active
ActiveSlice ==
    SelectSeq(SubSeq(allDates, PositionOf(startDate), PositionOf(endDate)),
              LAMBDA date : date \in ActiveLabels(SelectedGrid))

\* studentActivitiesCount once the loop over the analysed dates has passed the student
CountedActivities(student) ==
    datesLoop(student, AnalysedDates, 1, analysisStart).studentActivitiesCount

\* C27: every record ingested has the same grade keys, the date labels flagged active,
\* the entry of an empty cell holding an empty raw grade; so the filter of the analysis
\* keeps exactly the active dates of the slice, and the activity count of every student
\* is the number of selected dates
C27_SameGradeKeys ==
    sheetData # <<>> =>
        /\ \A k \in 1..Len(sheetData) :
              /\ GradeKeys(sheetData[k]) = ActiveLabels(SelectedGrid)
              /\ \A n \in 1..Len(sheetData[k].grades) :
                    sheetData[k].grades[n].val.grade
                        = trim(CellAt(SelectedGrid[NamedRows(SelectedGrid)[k]],
                                      LastColumnOf(SelectedGrid, sheetData[k].grades[n].key)))
        /\ Analysed =>
              /\ AnalysedDates = ActiveSlice
              /\ \A k \in 1..Len(sheetData) :
                    CountedActivities(sheetData[k]) = Len(AnalysedDates)

\* C27's case: a student with empty cells on two of three active dates, analysed over
\* the three; and a sheet with an inactive date in the analysed slice
C27_Witness ==
    /\ Analysed
    /\ Len(sheetData) = 2
    /\ Len(AnalysedDates) = 3
    /\ ObjGet(sheetData[2].grades, AnalysedDates[1]).grade = <<>>
    /\ ObjGet(sheetData[2].grades, AnalysedDates[3]).grade = <<>>
    /\ CountedActivities(sheetData[2]) = 3

\* C27's other case: an inactive date inside the analysed slice is left out
C27_InactiveDateLeftOut ==
    /\ Analysed
    /\ Len(sheetData) = 2
    /\ PositionOf(startDate) = 1 /\ PositionOf(endDate) = 2
    /\ ActiveLabels(SelectedGrid) = {T_D2}
    /\ AnalysedDates = <<T_D2>>

-----------------------------------------------------------------------------
(* Claims about the uploaded workbooks (SpecUploads) *)

\* the files picked so far that XLSX.read parses
ParsedFiles == {file \in picked : disk[file].readable}

\* C28: once every reader has completed, every file that was read and parsed is a key
\* of uploadedWorkbooks
C28_NoWorkbookLost ==
    readers = {} => ParsedFiles \subseteq DOMAIN uploadedWorkbooks

\* C28's failing case: two files picked in two calls, both read and parsed, one of them
\* no longer a key
C28_WorkbookLostReached ==
    /\ readers = {}
    /\ ParsedFiles = {"a.xlsx", "b.xlsx"}
    /\ DOMAIN uploadedWorkbooks = {"b.xlsx"}

-----------------------------------------------------------------------------
(* Claims about the selected file and sheet (SpecSelection) *)

\* the selected file is a key of uploadedWorkbooks
FileIsHeld == selectedFileName \in DOMAIN uploadedWorkbooks

\* the selected sheet is a sheet of the selected workbook
SheetIsOfSelectedFile ==
    /\ FileIsHeld
    /\ \E i \in 1..Len(uploadedWorkbooks[selectedFileName].SheetNames) :
          uploadedWorkbooks[selectedFileName].SheetNames[i] = selectedSheetName

\* C29: the selected sheet name is empty or names a sheet of the selected workbook,
\* and the selected file name is empty or a key of uploadedWorkbooks
C29_SelectionIsHeld ==
    /\ selectedSheetName = "" \/ SheetIsOfSelectedFile
    /\ selectedFileName = "" \/ FileIsHeld

\* C29's failing case: the workbook without sheets becomes the selected file while the
\* first sheet of another workbook stays the selected sheet
C29_SheetOfOtherFileReached ==
    /\ lastOp.op = "reader.onload"
    /\ selectedFileName = "e.xlsx"
    /\ FileIsHeld
    /\ selectedSheetName = "S1"

\* C29's other failing case: the selected file is no key of uploadedWorkbooks
C29_FileNotHeldReached ==
    /\ selectedFileName # ""
    /\ ~FileIsHeld

-----------------------------------------------------------------------------
(* Claims about the completion of feedback requests (SpecFeedbackFair) *)

\* the step settles the i-th request in flight
SettlesRequest(i) ==
    /\ i \in 1..Len(requests)
    /\ requests' = settled(i)
    /\ lastOp'.op \in {"response.ok", "response.error", "catch"}

\* C30: a feedback request that was started completes in the end, whether the call is
\* answered with success, answered without success or fails: isGeneratingFeedback becomes
\* false; and the step that sets the text of an outcome and ends the request settles a
\* request made for the student named in feedbackStudentName
C30_RequestCompletesForItsStudent ==
    /\ isGeneratingFeedback ~> ~isGeneratingFeedback
    /\ [][lastOp'.op \in {"response.ok", "response.error", "catch"} =>
              /\ ~isGeneratingFeedback'
              /\ \E i \in 1..Len(requests) :
                    /\ SettlesRequest(i)
                    /\ requests[i].studentName = feedbackStudentName']_vars

\* C30's case: the request made for Beto has failed; the modal names Beto and shows the
\* text of the catch
C30_Witness ==
    /\ lastOp.op = "catch"
    /\ ~isGeneratingFeedback
    /\ requests = <<>>
    /\ showFeedbackModal
    /\ analysisResults # <<>>
    /\ feedbackStudentName = T_Beto
    /\ llmFeedback = << <<"Error al conectar con el servidor para generar el feedback. Revisa tu conexion a internet o la consola del navegador.">> >>

=============================================================================
